---- MODULE Spec2Model ----
(***************************************************************************)
(* Layout boxes of PySweeper (pysweep/box.py, pysweep/display.py), the     *)
(* Multi of pysweep/dirstruct.py and the image cache of pysweep/skin.py.   *)
(*                                                                         *)
(* A tree of boxes is built bottom-up: the leaves first, then each         *)
(* composite around already built boxes.  expand, set_parentoffset and     *)
(* set_localoffset are ordinary recursive calls; an exception leaves the   *)
(* mutations made before it in place.                                      *)
(***************************************************************************)
EXTENDS Integers, Sequences, FiniteSets, TLC

VARIABLES
    shape,   \* the tree: node id -> constructor arguments (fixed after Init)
    boxes,   \* node id -> the Box fields of that object
    built,   \* the node ids whose constructor has returned
    last,    \* the last call made by the caller and how it ended
    dist,    \* inputs and result of one cumulative-floor distribution
    drawn,   \* the leaves whose draw() ran in the last draw() of a root, in order
    multi,   \* a Multi: its items and the last call made on it
    cache,   \* ImageLoader._cache: (source, path) -> image
    loader,  \* the files behind the sources and the last ImageLoader call
    counter  \* a Counter: numdigits, _state, the digits' states

vars == <<shape, boxes, built, last, dist, drawn, multi, cache, loader, counter>>

(***************************************************************************)
(* Bounds of the model.                                                    *)
(***************************************************************************)
\* expand is called with sizes up to the box's minimum plus MaxExcess
MaxExcess == 2
\* offsets passed to set_parentoffset / set_localoffset are 0 and MaxOffset
MaxOffset == 1
\* the distribution is applied to an excess of 0..MaxDistExcess
MaxDistExcess == 6
\* ... over weights 0..MaxWeight
MaxWeight == 3

(***************************************************************************)
(* Optional arguments: Python's None and a supplied integer.               *)
(***************************************************************************)
None == <<>>
Some(v) == <<v>>
IsNone(x) == x = <<>>
\* Python truthiness of an int-or-None: None and 0 are both false
Truthy(x) == IF x = <<>> THEN FALSE ELSE x[1] # 0
Val(x) == x[1]

Max2(a, b) == IF a >= b THEN a ELSE b
Min2(a, b) == IF a <= b THEN a ELSE b

RECURSIVE SeqSum(_)
SeqSum(s) == IF s = <<>> THEN 0 ELSE s[1] + SeqSum(Tail(s))

RECURSIVE SeqMax(_)
\* Python's max() over a non-empty sequence
SeqMax(s) == IF Len(s) = 1 THEN s[1] ELSE Max2(s[1], SeqMax(Tail(s)))

\* itertools.accumulate
accumulate(s) == [i \in 1..Len(s) |-> SeqSum(SubSeq(s, 1, i))]

\* int(a / b) for b > 0: Python's int() truncates towards zero
IntDiv(a, b) == IF a >= 0 THEN a \div b ELSE -((-a) \div b)

(***************************************************************************)
(* Thickness                                                               *)
(***************************************************************************)
Thickness(b, l, r, t) == [b |-> b, l |-> l, r |-> r, t |-> t]
ThicknessWidth(th) == th.l + th.r
ThicknessHeight(th) == th.b + th.t

(***************************************************************************)
(* The shape of a tree: one record of constructor arguments per node.      *)
(* rows is subboxes (GridBox: the table; LayerBox: one row; BorderBox: the *)
(* inner box); a node's children have smaller ids than the node.           *)
(***************************************************************************)
Leaf(kind, w, h) == [kind |-> kind, minwidth |-> w, minheight |-> h]

Grid(rows, colfactors, rowfactors) ==
    [kind |-> "GridBox", rows |-> rows, colfactors |-> colfactors,
     rowfactors |-> rowfactors]

Layer(subboxes, matchsizes) ==
    [kind |-> "LayerBox", rows |-> <<subboxes>>, matchsizes |-> matchsizes]

Border(innerbox, thickness) ==
    [kind |-> "BorderBox", rows |-> <<(<<innerbox>>)>>, thickness |-> thickness]

\* GridBox(rows, rowfactors=(None,), colfactors=...): a one-row grid whose
\* row weight is None
GridNoneRow(rows, colfactors) ==
    [kind |-> "GridBox", rows |-> rows, colfactors |-> colfactors,
     rowfactors |-> <<>>, rowfactors_none |-> TRUE]

\* Box(w, h, expandfactor=ef): a primitive box given an expand factor
WeightedLeaf(w, h, ef) ==
    [kind |-> "Box", minwidth |-> w, minheight |-> h, expandfactor |-> ef]

\* VSplitBox(*subboxes, matchheights=...)
VSplit(subboxes, matchheights) ==
    [kind |-> "VSplitBox", rows |-> <<subboxes>>, matchheights |-> matchheights]

\* HSplitBox(*subboxes, matchwidths=...)
HSplit(subboxes, matchwidths) ==
    [kind |-> "HSplitBox", rows |-> <<subboxes>>, matchwidths |-> matchwidths]

LeafKinds == {"Box", "Sprite", "BorderCorner", "BorderVEdge", "BorderHEdge"}

Nodes == 1..Len(shape)
IsLeaf(n) == shape[n].kind \in LeafKinds

\* the children of node n, row by row
RECURSIVE Flatten(_)
Flatten(rows) == IF rows = <<>> THEN <<>> ELSE rows[1] \o Flatten(Tail(rows))
Kids(n) == IF IsLeaf(n) THEN <<>> ELSE Flatten(shape[n].rows)
KidSet(n) == {Kids(n)[i] : i \in 1..Len(Kids(n))}
HasParent(n) == \E p \in built : n \in KidSet(p)
Roots == {n \in built : ~HasParent(n)}

\* b.expandfactor: the constructor's argument, 1 when none was given
expandfactor(n) ==
    IF "expandfactor" \in DOMAIN shape[n] THEN shape[n].expandfactor ELSE 1

\* GridBox.rows / GridBox.cols
NumRows(n) == Len(shape[n].rows)
NumCols(n) == Len(shape[n].rows[1])
Cell(n, r, c) == shape[n].rows[r][c]

(***************************************************************************)
(* Box                                                                     *)
(***************************************************************************)
\* Box.__init__ (the call of update_child_offsets is made by the caller)
BoxInit(minwidth, minheight) ==
    [width |-> minwidth, minwidth |-> minwidth,
     height |-> minheight, minheight |-> minheight,
     localoffset_x |-> 0, localoffset_y |-> 0,
     parentoffset_x |-> 0, parentoffset_y |-> 0]

offset_x(b, n) == b[n].localoffset_x + b[n].parentoffset_x
offset_y(b, n) == b[n].localoffset_y + b[n].parentoffset_y
\* Box.offset: "Look like a x/y tuple"
offset(b, n) == <<offset_x(b, n), offset_y(b, n)>>
boxcoords(b, n) ==
    <<offset_x(b, n), offset_y(b, n),
      offset_x(b, n) + b[n].width, offset_y(b, n) + b[n].height>>

Ok(b) == [b |-> b, err |-> "ok"]
Raise(b, e) == [b |-> b, err |-> e]

\* Box.expand without its minimum-size test
BoxExpandAcceptsAll(b, n, width, height) == TRUE

\* the test of Box.expand: each axis is checked only when it is truthy
BoxExpandAccepts(b, n, width, height) ==
    /\ (IF Truthy(width) THEN Val(width) >= b[n].minwidth ELSE TRUE)
    /\ (IF Truthy(height) THEN Val(height) >= b[n].minheight ELSE TRUE)

\* Box.expand
BoxExpand(b, n, width, height) ==
    IF ~BoxExpandAccepts(b, n, width, height)
    THEN Raise(b, "TooSmallError")
    ELSE Ok([b EXCEPT ![n].width = IF Truthy(width) THEN Val(width) ELSE @,
                      ![n].height = IF Truthy(height) THEN Val(height) ELSE @])

(***************************************************************************)
(* Offsets: set_parentoffset / set_localoffset push the new offset down    *)
(* through update_child_offsets of the box's class.                        *)
(***************************************************************************)
RECURSIVE set_parentoffset(_, _, _, _)
RECURSIVE SetAll(_, _, _)

\* a run of child.set_parentoffset(x, y) calls, in order
SetAll(b, calls, i) ==
    IF i > Len(calls) THEN b
    ELSE SetAll(set_parentoffset(b, calls[i][1], Some(calls[i][2]), Some(calls[i][3])),
                calls, i + 1)

\* GridBox.update_child_offsets: the cumulative widths of the first row and
\* the cumulative heights of the first column place every cell
GridBoxChildOffsets(b, n) ==
    LET R == NumRows(n)
        C == NumCols(n)
        cumcolwidths == <<0>> \o accumulate([c \in 1..C |-> b[Cell(n, 1, c)].width])
        cumrowheights == <<0>> \o accumulate([r \in 1..R |-> b[Cell(n, r, 1)].height])
    IN [i \in 1..(R * C) |->
          LET r == ((i - 1) \div C) + 1
              c == ((i - 1) % C) + 1
          IN <<Cell(n, r, c), offset_x(b, n) + cumcolwidths[c],
                              offset_y(b, n) + cumrowheights[r]>>]

\* LayerBox.update_child_offsets
LayerBoxChildOffsets(b, n) ==
    [i \in 1..Len(Kids(n)) |-> <<Kids(n)[i], offset_x(b, n), offset_y(b, n)>>]

\* BorderBox.update_child_offsets insetting by the right and bottom thickness
BorderBoxChildOffsetsSwapped(b, n) ==
    << <<Kids(n)[1], offset_x(b, n) + shape[n].thickness.r,
                     offset_y(b, n) + shape[n].thickness.b>> >>

\* BorderBox.update_child_offsets
BorderBoxChildOffsets(b, n) ==
    << <<Kids(n)[1], offset_x(b, n) + shape[n].thickness.l,
                     offset_y(b, n) + shape[n].thickness.t>> >>

\* VSplitBox.update_child_offsets: the sub-boxes side by side
VSplitBoxChildOffsets(b, n) ==
    LET k == Kids(n)
        cumwidths == <<0>> \o accumulate([i \in 1..Len(k) |-> b[k[i]].width])
    IN [i \in 1..Len(k) |-> <<k[i], offset_x(b, n) + cumwidths[i], offset_y(b, n)>>]

\* HSplitBox.update_child_offsets: the sub-boxes one below the other
HSplitBoxChildOffsets(b, n) ==
    LET k == Kids(n)
        cumheights == <<0>> \o accumulate([i \in 1..Len(k) |-> b[k[i]].height])
    IN [i \in 1..Len(k) |-> <<k[i], offset_x(b, n), offset_y(b, n) + cumheights[i]>>]

\* update_child_offsets, by class; Box.update_child_offsets does nothing
update_child_offsets(b, n) ==
    SetAll(b, CASE shape[n].kind = "GridBox" -> GridBoxChildOffsets(b, n)
                [] shape[n].kind = "VSplitBox" -> VSplitBoxChildOffsets(b, n)
                [] shape[n].kind = "HSplitBox" -> HSplitBoxChildOffsets(b, n)
                [] shape[n].kind = "LayerBox" -> LayerBoxChildOffsets(b, n)
                [] shape[n].kind = "BorderBox" -> BorderBoxChildOffsets(b, n)
                [] OTHER -> <<>>,
           1)

\* the assignment made by Box.set_parentoffset before it propagates
StoreParentOffset(b, n, x, y) ==
    [b EXCEPT ![n].parentoffset_x = IF IsNone(x) THEN @ ELSE Val(x),
              ![n].parentoffset_y = IF IsNone(y) THEN @ ELSE Val(y)]

\* set_localoffset taking a supplied 0 for an absent argument
StoreLocalOffsetTruthy(b, n, x, y) ==
    [b EXCEPT ![n].localoffset_x = IF Truthy(x) THEN Val(x) ELSE @,
              ![n].localoffset_y = IF Truthy(y) THEN Val(y) ELSE @]

\* the assignment made by Box.set_localoffset before it propagates
StoreLocalOffset(b, n, x, y) ==
    [b EXCEPT ![n].localoffset_x = IF IsNone(x) THEN @ ELSE Val(x),
              ![n].localoffset_y = IF IsNone(y) THEN @ ELSE Val(y)]

\* set_parentoffset storing the offset without re-positioning the sub-boxes
SetParentOffsetOnly(b, n, x, y) == StoreParentOffset(b, n, x, y)

\* Box.set_parentoffset
set_parentoffset(b, n, x, y) == update_child_offsets(StoreParentOffset(b, n, x, y), n)

\* Box.set_localoffset
set_localoffset(b, n, x, y) == update_child_offsets(StoreLocalOffset(b, n, x, y), n)

(***************************************************************************)
(* expand, by class.  A result is the boxes as the call left them and the  *)
(* exception it raised ("ok" when it returned).                            *)
(***************************************************************************)
RECURSIVE expand(_, _, _, _)
RECURSIVE ExpandAll(_, _, _)
RECURSIVE ExpandRest(_, _, _)

\* a run of child.expand(width, height) calls, stopped by the first exception
ExpandAll(b, calls, i) ==
    IF i > Len(calls) THEN Ok(b)
    ELSE ExpandRest(expand(b, calls[i][1], calls[i][2], calls[i][3]), calls, i)

\* the calls after call i, which returned r
ExpandRest(r, calls, i) == IF r.err # "ok" THEN r ELSE ExpandAll(r.b, calls, i + 1)

\* cum_exp = int(excess * ef / sumfactors)
CumExp(excess, ef, sumfactors) == IntDiv(excess * ef, sumfactors)

\* each bucket's own share floored on its own, instead of the difference of
\* floored cumulative shares
ExpIndependent(excess, cumfactors, i) ==
    IntDiv(excess * (cumfactors[i] - (IF i = 1 THEN 0 ELSE cumfactors[i - 1])),
           cumfactors[Len(cumfactors)])

\* each bucket but the last gets its own share floored, the last bucket
\* what is left of the excess
ExpRemainderToLast(excess, cumfactors, i) ==
    LET own(j) == IntDiv(excess * (cumfactors[j] - (IF j = 1 THEN 0 ELSE cumfactors[j - 1])),
                         cumfactors[Len(cumfactors)])
    IN IF i < Len(cumfactors) THEN own(i)
       ELSE excess - SeqSum([j \in 1..(Len(cumfactors) - 1) |-> own(j)])

\* exp = cum_exp - prev_cum_exp for the i-th column/row (prev_cum_exp starts at 0)
Exp(excess, cumfactors, i) ==
    CumExp(excess, cumfactors[i], cumfactors[Len(cumfactors)])
      - (IF i = 1 THEN 0
         ELSE CumExp(excess, cumfactors[i - 1], cumfactors[Len(cumfactors)]))

\* the size GridBox.expand asks of a cell: the cell's own minimum plus exp
CellTarget(min, exp) == min + exp

\* the b.expand(b.minwidth + exp, None) calls of GridBox.expand, column by column
GridBoxColCalls(b, n, width) ==
    LET R == NumRows(n)
        cum == accumulate(shape[n].colfactors)
        C == Min2(NumCols(n), Len(cum))
        excesswidth == Val(width) - b[n].minwidth
    IN [i \in 1..(R * C) |->
          LET c == ((i - 1) \div R) + 1
              r == ((i - 1) % R) + 1
              k == Cell(n, r, c)
          IN <<k, Some(CellTarget(b[k].minwidth, Exp(excesswidth, cum, c))), None>>]

\* the b.expand(None, b.minheight + exp) calls of GridBox.expand, row by row
GridBoxRowCalls(b, n, height) ==
    LET C == NumCols(n)
        cum == accumulate(shape[n].rowfactors)
        R == Min2(NumRows(n), Len(cum))
        excessheight == Val(height) - b[n].minheight
    IN [i \in 1..(R * C) |->
          LET r == ((i - 1) \div C) + 1
              c == ((i - 1) % C) + 1
              k == Cell(n, r, c)
          IN <<k, None, Some(CellTarget(b[k].minheight, Exp(excessheight, cum, r)))>>]

sumcolfactors(n) == SeqSum(shape[n].colfactors)
sumrowfactors(n) == SeqSum(shape[n].rowfactors)

\* rowfactors=(None,): accumulate leaves the single None as it is, so
\* sumrowfactors is None
sumrowfactors_none(n) == "rowfactors_none" \in DOMAIN shape[n]

\* the height half of GridBox.expand and the closing update_child_offsets;
\* with sumrowfactors None the test == 0 is false and the first
\* int(excessheight * ef / self.sumrowfactors) raises TypeError
GridBoxExpandHeight(b, n, height) ==
    IF IsNone(height) THEN Ok(update_child_offsets(b, n))
    ELSE IF sumrowfactors_none(n) THEN Raise(b, "TypeError")
    ELSE IF sumrowfactors(n) = 0 THEN Ok(b)
    ELSE LET r == ExpandAll(b, GridBoxRowCalls(b, n, height), 1)
         IN IF r.err # "ok" THEN r ELSE Ok(update_child_offsets(r.b, n))

\* GridBox.expand
GridBoxExpand(b, n, width, height) ==
    LET own == BoxExpand(b, n, width, height)
    IN IF own.err # "ok" THEN own
       ELSE IF IsNone(width) THEN GridBoxExpandHeight(own.b, n, height)
       ELSE IF sumcolfactors(n) = 0 THEN Ok(own.b)
       ELSE LET r == ExpandAll(own.b, GridBoxColCalls(own.b, n, width), 1)
            IN IF r.err # "ok" THEN r ELSE GridBoxExpandHeight(r.b, n, height)

\* cum_ef = list(itertools.accumulate(b.expandfactor for b in self.subboxes))
cum_ef(n) == accumulate([i \in 1..Len(Kids(n)) |-> expandfactor(Kids(n)[i])])

\* VSplitBox.expand
VSplitBoxExpand(b, n, width, height) ==
    LET k == Kids(n)
        own == BoxExpand(b, n, width, height)
        total_ef == cum_ef(n)[Len(k)]
        matched == IF shape[n].matchheights
                   THEN [i \in 1..Len(k) |-> <<k[i], None, height>>]
                   ELSE <<>>
        excesswidth == Val(width) - own.b[n].minwidth
        widened == IF Truthy(width) /\ total_ef # 0
                   THEN [i \in 1..Len(k) |->
                           <<k[i], Some(own.b[k[i]].minwidth
                                          + Exp(excesswidth, cum_ef(n), i)), None>>]
                   ELSE <<>>
        r == ExpandAll(own.b, matched \o widened, 1)
    IN IF own.err # "ok" THEN own
       ELSE IF r.err # "ok" THEN r
       ELSE IF Truthy(width) /\ total_ef = 0 THEN r
       ELSE Ok(update_child_offsets(r.b, n))

\* HSplitBox.expand
HSplitBoxExpand(b, n, width, height) ==
    LET k == Kids(n)
        own == BoxExpand(b, n, width, height)
        total_ef == cum_ef(n)[Len(k)]
        matched == IF shape[n].matchwidths
                   THEN [i \in 1..Len(k) |-> <<k[i], width, None>>]
                   ELSE <<>>
        excessheight == Val(height) - own.b[n].minheight
        heightened == IF Truthy(height) /\ total_ef # 0
                      THEN [i \in 1..Len(k) |->
                              <<k[i], None, Some(own.b[k[i]].minheight
                                                   + Exp(excessheight, cum_ef(n), i))>>]
                      ELSE <<>>
        r == ExpandAll(own.b, matched \o heightened, 1)
    IN IF own.err # "ok" THEN own
       ELSE IF r.err # "ok" THEN r
       ELSE IF Truthy(height) /\ total_ef = 0 THEN r
       ELSE Ok(update_child_offsets(r.b, n))

\* LayerBox.expand
LayerBoxExpand(b, n, width, height) ==
    LET r == IF shape[n].matchsizes
             THEN ExpandAll(b, [i \in 1..Len(Kids(n)) |-> <<Kids(n)[i], width, height>>], 1)
             ELSE Ok(b)
    IN IF r.err # "ok" THEN r ELSE BoxExpand(r.b, n, width, height)

\* innerwidth / innerheight of BorderBox.expand
Inner(size, extent) == IF Truthy(size) THEN Some(Val(size) - extent) ELSE None

\* BorderBox.expand
BorderBoxExpand(b, n, width, height) ==
    LET r == expand(b, Kids(n)[1],
                    Inner(width, ThicknessWidth(shape[n].thickness)),
                    Inner(height, ThicknessHeight(shape[n].thickness)))
    IN IF r.err # "ok" THEN r ELSE BoxExpand(r.b, n, width, height)

\* the locked-axis test taking a supplied 0 for an absent argument
LockedTruthy(min, size) == Truthy(size) /\ min # Val(size)

\* the locked-axis test of Sprite / BorderCorner / BorderVEdge / BorderHEdge
Locked(min, size) == ~IsNone(size) /\ min # Val(size)

\* Sprite.expand and BorderCorner.expand: both axes locked, nothing is stored
SpriteExpand(b, n, width, height) ==
    IF Locked(b[n].minwidth, width) \/ Locked(b[n].minheight, height)
    THEN Raise(b, "NotExpandableError")
    ELSE Ok(b)

\* BorderVEdge.expand: width locked, then GridTile.expand = Box.expand
BorderVEdgeExpand(b, n, width, height) ==
    IF Locked(b[n].minwidth, width)
    THEN Raise(b, "NotExpandableError")
    ELSE BoxExpand(b, n, width, height)

\* BorderHEdge.expand: height locked, then GridTile.expand = Box.expand
BorderHEdgeExpand(b, n, width, height) ==
    IF Locked(b[n].minheight, height)
    THEN Raise(b, "NotExpandableError")
    ELSE BoxExpand(b, n, width, height)

\* obj.expand(width, height), dispatched on the class of the object
expand(b, n, width, height) ==
    CASE shape[n].kind = "Box" -> BoxExpand(b, n, width, height)
      [] shape[n].kind = "GridBox" -> GridBoxExpand(b, n, width, height)
      [] shape[n].kind = "VSplitBox" -> VSplitBoxExpand(b, n, width, height)
      [] shape[n].kind = "HSplitBox" -> HSplitBoxExpand(b, n, width, height)
      [] shape[n].kind = "LayerBox" -> LayerBoxExpand(b, n, width, height)
      [] shape[n].kind = "BorderBox" -> BorderBoxExpand(b, n, width, height)
      [] shape[n].kind = "Sprite" -> SpriteExpand(b, n, width, height)
      [] shape[n].kind = "BorderCorner" -> SpriteExpand(b, n, width, height)
      [] shape[n].kind = "BorderVEdge" -> BorderVEdgeExpand(b, n, width, height)
      [] shape[n].kind = "BorderHEdge" -> BorderHEdgeExpand(b, n, width, height)

(***************************************************************************)
(* Constructors.  A constructor that raises leaves no object behind, but   *)
(* the expand calls it made on its sub-boxes before raising stay made.     *)
(***************************************************************************)
\* column widths that add the minimums of a column up instead of taking
\* their maximum
colwidthsSummed(b, n) ==
    [c \in 1..NumCols(n) |-> SeqSum([r \in 1..NumRows(n) |-> b[Cell(n, r, c)].minwidth])]

\* self.colwidths = [max(b.minwidth for b in col) for col in self.cols]
colwidths(b, n) ==
    [c \in 1..NumCols(n) |-> SeqMax([r \in 1..NumRows(n) |-> b[Cell(n, r, c)].minwidth])]

\* self.rowheights = [max(b.minheight for b in row) for row in self.rows]
rowheights(b, n) ==
    [r \in 1..NumRows(n) |-> SeqMax([c \in 1..NumCols(n) |-> b[Cell(n, r, c)].minheight])]

\* the matching calls of GridBox.__init__: b.expand(colwidth, None) column
\* by column, then b.expand(None, rowheight) row by row
GridBoxInitCalls(b, n) ==
    LET R == NumRows(n)
        C == NumCols(n)
    IN [i \in 1..(R * C) |->
          LET c == ((i - 1) \div R) + 1
              r == ((i - 1) % R) + 1
          IN <<Cell(n, r, c), Some(colwidths(b, n)[c]), None>>]
       \o
       [i \in 1..(R * C) |->
          LET r == ((i - 1) \div C) + 1
              c == ((i - 1) % C) + 1
          IN <<Cell(n, r, c), None, Some(rowheights(b, n)[r])>>]

\* Box.__init__ as called by a composite: it stores the fields, then calls
\* the composite's update_child_offsets
BoxInitComposite(b, n, minwidth, minheight) ==
    update_child_offsets([b EXCEPT ![n] = BoxInit(minwidth, minheight)], n)

\* GridBox.__init__
GridBoxInit(b, n) ==
    LET r == ExpandAll(b, GridBoxInitCalls(b, n), 1)
    IN IF r.err # "ok" THEN r
       ELSE Ok(BoxInitComposite(r.b, n, SeqSum(colwidths(b, n)), SeqSum(rowheights(b, n))))

\* LayerBox.__init__
LayerBoxInit(b, n) ==
    LET k == Kids(n)
        own == BoxInitComposite(b, n,
                   SeqMax([i \in 1..Len(k) |-> b[k[i]].minwidth]),
                   SeqMax([i \in 1..Len(k) |-> b[k[i]].minheight]))
    IN IF shape[n].matchsizes
       THEN ExpandAll(own, [i \in 1..Len(k) |->
                              <<k[i], Some(own[n].minwidth), Some(own[n].minheight)>>], 1)
       ELSE Ok(own)

\* BorderBox.__init__
BorderBoxInit(b, n) ==
    LET inner == Kids(n)[1]
    IN Ok(BoxInitComposite(b, n,
              b[inner].width + ThicknessWidth(shape[n].thickness),
              b[inner].height + ThicknessHeight(shape[n].thickness)))

\* VSplitBox.__init__
VSplitBoxInit(b, n) ==
    LET k == Kids(n)
        own == BoxInitComposite(b, n,
                   SeqSum([i \in 1..Len(k) |-> b[k[i]].minwidth]),
                   SeqMax([i \in 1..Len(k) |-> b[k[i]].minheight]))
    IN IF shape[n].matchheights
       THEN ExpandAll(own, [i \in 1..Len(k) |-> <<k[i], None, Some(own[n].minheight)>>], 1)
       ELSE Ok(own)

\* HSplitBox.__init__
HSplitBoxInit(b, n) ==
    LET k == Kids(n)
        own == BoxInitComposite(b, n,
                   SeqMax([i \in 1..Len(k) |-> b[k[i]].minwidth]),
                   SeqSum([i \in 1..Len(k) |-> b[k[i]].minheight]))
    IN IF shape[n].matchwidths
       THEN ExpandAll(own, [i \in 1..Len(k) |-> <<k[i], Some(own[n].minwidth), None>>], 1)
       ELSE Ok(own)

\* the constructor of node n's class
construct(b, n) ==
    CASE shape[n].kind = "GridBox" -> GridBoxInit(b, n)
      [] shape[n].kind = "VSplitBox" -> VSplitBoxInit(b, n)
      [] shape[n].kind = "HSplitBox" -> HSplitBoxInit(b, n)
      [] shape[n].kind = "LayerBox" -> LayerBoxInit(b, n)
      [] shape[n].kind = "BorderBox" -> BorderBoxInit(b, n)

(***************************************************************************)
(* draw.  A composite draws nothing itself and calls draw() on its         *)
(* sub-boxes; the result is the sequence of leaves whose draw() ran.       *)
(***************************************************************************)
RECURSIVE draw(_)
RECURSIVE DrawAll(_, _)

\* a run of b.draw() calls, in order
DrawAll(kids, i) ==
    IF i > Len(kids) THEN <<>> ELSE draw(kids[i]) \o DrawAll(kids, i + 1)

\* the cells of a grid taken column by column
GridBoxDrawOrderByColumn(n) ==
    [i \in 1..(NumRows(n) * NumCols(n)) |->
       Cell(n, ((i - 1) % NumRows(n)) + 1, ((i - 1) \div NumRows(n)) + 1)]

\* GridBox.draw: for row in self.rows: for b in row: b.draw()
GridBoxDrawOrder(n) ==
    [i \in 1..(NumRows(n) * NumCols(n)) |->
       Cell(n, ((i - 1) \div NumCols(n)) + 1, ((i - 1) % NumCols(n)) + 1)]

\* LayerBox.draw: for b in self.subboxes: b.draw()
LayerBoxDrawOrder(n) == shape[n].rows[1]

\* BorderBox.draw: self.innerbox.draw()
BorderBoxDrawOrder(n) == <<shape[n].rows[1][1]>>

\* VSplitBox.draw / HSplitBox.draw: for b in self.subboxes: b.draw()
SplitBoxDrawOrder(n) == shape[n].rows[1]

\* obj.draw(), dispatched on the class of the object; a leaf draws itself
draw(n) ==
    IF IsLeaf(n) THEN <<n>>
    ELSE DrawAll(CASE shape[n].kind = "GridBox" -> GridBoxDrawOrder(n)
                   [] shape[n].kind = "VSplitBox" -> SplitBoxDrawOrder(n)
                   [] shape[n].kind = "HSplitBox" -> SplitBoxDrawOrder(n)
                   [] shape[n].kind = "LayerBox" -> LayerBoxDrawOrder(n)
                   [] shape[n].kind = "BorderBox" -> BorderBoxDrawOrder(n),
                 1)

(***************************************************************************)
(* Multi (dirstruct.py): an item is a callable; calling it raises or       *)
(* returns the item's own value.                                           *)
(***************************************************************************)
Item(id, raises) == [id |-> id, raises |-> raises]

\* Multi.__init__
MultiInit(items) ==
    IF Len(items) = 0
    THEN [items |-> <<>>, err |-> "RuntimeError"]
    ELSE [items |-> items, err |-> "ok"]

\* what map_(item) does: it raises, or it returns a callable that returns,
\* or a callable that raises
MapOutcomes == {"raise", "callable", "raising"}

\* the loop of multi_map: result.append(map_(item)) unless map_(item) raises
RECURSIVE MapResult(_, _)
MapResult(items, map_) ==
    IF items = <<>> THEN <<>>
    ELSE (IF map_[Head(items).id] = "raise" THEN <<>>
          ELSE <<Item(Head(items).id, map_[Head(items).id] = "raising")>>)
           \o MapResult(Tail(items), map_)

\* Multi.multi_map
multi_map(items, map_) == MultiInit(MapResult(items, map_))

\* Multi.multi_filter
multi_filter(items, filter_) ==
    MultiInit(SelectSeq(items, LAMBDA item : filter_[item.id]))

\* the loop of call_one from the i-th item on
RECURSIVE CallOneFrom(_, _, _)
CallOneFrom(items, i, called) ==
    IF i > Len(items)
    THEN [called |-> called, result |-> None, err |-> "RuntimeError"]
    ELSE IF items[i].raises
    THEN CallOneFrom(items, i + 1, Append(called, items[i].id))
    ELSE [called |-> Append(called, items[i].id), result |-> Some(items[i].id),
          err |-> "ok"]

\* a loop that calls every item and keeps the last result
RECURSIVE CallAllFrom(_, _, _, _)
CallAllFrom(items, i, called, result) ==
    IF i > Len(items)
    THEN [called |-> called, result |-> result,
          err |-> IF IsNone(result) THEN "RuntimeError" ELSE "ok"]
    ELSE CallAllFrom(items, i + 1, Append(called, items[i].id),
                     IF items[i].raises THEN result ELSE Some(items[i].id))

\* call_one returning the result of the last item that can be called
call_one_last(items) == CallAllFrom(items, 1, <<>>, None)

\* Multi.call_one
call_one(items) == CallOneFrom(items, 1, <<>>)

(***************************************************************************)
(* ImageLoader (skin.py).  An instance holds nothing but _source and       *)
(* _path; the cache is the class attribute ImageLoader._cache.  An image   *)
(* is the object one load created: the file it was read from and the       *)
(* number of the load.                                                     *)
(***************************************************************************)
\* Dir(path) and Multi(Dir(...), ...): a Dir is equal to a Dir of the same
\* path, a Multi only to itself
DirSource(d) == [kind |-> "Dir", dirs |-> <<d>>]
MultiSource(dirs) == [kind |-> "Multi", dirs |-> dirs]

\* the loop of multi_map_one(lambda l: Image.open(l.open('rb'))): the first
\* location whose file opens
RECURSIVE multi_map_one(_, _, _, _)
multi_map_one(dirs, i, path, files) ==
    IF i > Len(dirs) THEN [err |-> "RuntimeError", dir |-> None]
    ELSE IF <<dirs[i], path>> \in files THEN [err |-> "ok", dir |-> Some(dirs[i])]
    ELSE multi_map_one(dirs, i + 1, path, files)

\* the except KeyError branch of ImageLoader.open up to img
LoadImage(source, path, files) ==
    IF source.kind = "Multi" THEN multi_map_one(source.dirs, 1, path, files)
    ELSE IF <<source.dirs[1], path>> \in files
    THEN [err |-> "ok", dir |-> Some(source.dirs[1])]
    ELSE [err |-> "FileNotFoundError", dir |-> None]

\* an open() that reads the file again whether or not the key is cached
open_always_loads(c, loads, files, source, path) ==
    LET key == <<source, path>>
        r == LoadImage(source, path, files)
        img == [dir |-> Val(r.dir), path |-> path, load |-> loads + 1]
    IN IF r.err # "ok"
       THEN [cache |-> c, loads |-> loads, result |-> None, err |-> r.err]
       ELSE [cache |-> [k \in DOMAIN c \cup {key} |-> IF k = key THEN img ELSE c[k]],
             loads |-> loads + 1, result |-> Some(img), err |-> "ok"]

\* ImageLoader.open on an instance with _source = source, _path = path
open(c, loads, files, source, path) ==
    LET key == <<source, path>>
    IN IF key \in DOMAIN c
       THEN [cache |-> c, loads |-> loads, result |-> Some(c[key]), err |-> "ok"]
       ELSE LET r == LoadImage(source, path, files)
                img == [dir |-> Val(r.dir), path |-> path, load |-> loads + 1]
            IN IF r.err # "ok"
               THEN [cache |-> c, loads |-> loads, result |-> None, err |-> r.err]
               ELSE [cache |-> [k \in DOMAIN c \cup {key} |->
                                  IF k = key THEN img ELSE c[k]],
                     loads |-> loads + 1, result |-> Some(img), err |-> "ok"]

\* ImageLoader.preload: self.get(path).open() for each path, ended by the
\* first exception
RECURSIVE preload(_, _, _, _, _, _)
preload(c, loads, files, source, paths, i) ==
    IF i > Len(paths) THEN [cache |-> c, loads |-> loads, result |-> None, err |-> "ok"]
    ELSE LET r == open(c, loads, files, source, paths[i])
         IN IF r.err # "ok" THEN [r EXCEPT !.result = None]
            ELSE preload(r.cache, r.loads, files, source, paths, i + 1)

(***************************************************************************)
(* Counter (display.py): the state setter clamps the value, formats it     *)
(* right-aligned in numdigits characters and sets one digit per character. *)
(***************************************************************************)
RECURSIVE Pow10(_)
Pow10(n) == IF n = 0 THEN 1 ELSE 10 * Pow10(n - 1)

\* the characters of the decimal digits and the DigitState.Digit[i] classes
DigitChars == <<"0", "1", "2", "3", "4", "5", "6", "7", "8", "9">>
DigitClasses ==
    <<"Digit_0", "Digit_1", "Digit_2", "Digit_3", "Digit_4",
      "Digit_5", "Digit_6", "Digit_7", "Digit_8", "Digit_9">>

\* str(value) for value >= 0
RECURSIVE DecimalText(_)
DecimalText(value) ==
    IF value < 10 THEN <<DigitChars[value + 1]>>
    ELSE Append(DecimalText(value \div 10), DigitChars[(value % 10) + 1])

\* f'{value:>{numdigits}}': the decimal text, padded with spaces on the left
\* to numdigits characters and never cut
countertext(value, numdigits) ==
    LET text == IF value < 0 THEN <<"-">> \o DecimalText(-value) ELSE DecimalText(value)
    IN [i \in 1..(numdigits - Len(text)) |-> " "] \o text

\* the setter's clamping with the upper test only
ClampedAbove(numdigits, value) ==
    IF value >= Pow10(numdigits) THEN Pow10(numdigits) - 1 ELSE value

\* the two if statements of the setter, one after the other
Clamped(numdigits, value) ==
    LET v == IF value >= Pow10(numdigits) THEN Pow10(numdigits) - 1 ELSE value
    IN IF v <= -Pow10(numdigits - 1) THEN -Pow10(numdigits - 1) + 1 ELSE v

\* the DigitState a character selects
DigitStateOf(v) ==
    IF v = " " THEN "Off"
    ELSE IF v = "-" THEN "Minus"
    ELSE DigitClasses[(CHOOSE d \in 0..9 : DigitChars[d + 1] = v) + 1]

\* Counter.state = value; self.digits[i] raises IndexError at the first
\* character beyond the digits, the digits set before it stay set
SetCounterState(c, value) ==
    LET v == Clamped(c.numdigits, value)
        text == countertext(v, c.numdigits)
    IN [numdigits |-> c.numdigits, state |-> v, text |-> text, assigned |-> value,
        digits |-> [i \in 1..c.numdigits |->
                      IF i <= Len(text) THEN DigitStateOf(text[i]) ELSE c.digits[i]],
        err |-> IF Len(text) > c.numdigits THEN "IndexError" ELSE "ok"]

(***************************************************************************)
(* The trees the model builds.                                             *)
(***************************************************************************)
\* leaves are built with minimum sizes 0..MaxMin where a tree leaves them open
MaxMin == 2

\* a primitive Box on its own
BoxTrees == {<<Leaf("Box", w, h)>> : w \in 0..MaxMin, h \in 0..MaxMin}

\* a locked leaf on its own
LockedTrees ==
    {<<Leaf(k, 2, 1)>> : k \in {"Sprite", "BorderCorner", "BorderVEdge", "BorderHEdge"}}

\* the (colfactors, rowfactors) given to a 2x2 grid of equal cells: one
\* zero weight, all weights of one axis zero, all weights zero
Factors2 ==
    {<<(<<0, 1>>), (<<1, 1>>)>>, <<(<<0, 0>>), (<<0, 1>>)>>,
     <<(<<1, 1>>), (<<0, 0>>)>>, <<(<<0, 0>>), (<<0, 0>>)>>}

\* GridBox([[b1, b2]], colfactors=[1, 3]) of the GridBox docstring
GridDocRow ==
    <<Leaf("Box", 10, 2), Leaf("Box", 20, 1), Grid(<< <<1, 2>> >>, <<1, 3>>, <<1>>)>>

\* GridBox([[b1], [b2]], rowfactors=[1, 3]) of the GridBox docstring
GridDocCol ==
    <<Leaf("Box", 2, 10), Leaf("Box", 1, 20), Grid(<< <<1>>, <<2>> >>, <<1>>, <<1, 3>>)>>

\* a 2x2 grid whose cells have unequal minimum sizes
GridUnequal(cf, rf) ==
    <<Leaf("Box", 1, 1), Leaf("Box", 2, 1), Leaf("Box", 2, 2), Leaf("Box", 1, 1),
      Grid(<< <<1, 2>>, <<3, 4>> >>, cf, rf)>>

\* a 2x2 grid of equal cells
GridUniform(cf, rf) ==
    <<Leaf("Box", 1, 1), Leaf("Box", 1, 1), Leaf("Box", 1, 1), Leaf("Box", 1, 1),
      Grid(<< <<1, 2>>, <<3, 4>> >>, cf, rf)>>

\* GridBox([[Box(0, 0), tilesbox, Box(0, 0)]], colfactors=(1, 0, 1)) of Board
GridSpacer ==
    <<Leaf("Box", 0, 0), Leaf("Box", 2, 1), Leaf("Box", 0, 0),
      Grid(<< <<1, 2, 3>> >>, <<1, 0, 1>>, <<1>>)>>

\* a 2x2 grid whose first column has weight 0 and holds a spacer above a
\* wider cell
GridZeroCol ==
    <<Leaf("Box", 0, 1), Leaf("Box", 1, 1), Leaf("Box", 2, 1), Leaf("Box", 1, 1),
      Grid(<< <<1, 2>>, <<3, 4>> >>, <<0, 1>>, <<1, 1>>)>>

GridTrees ==
    {GridDocRow, GridDocCol, GridSpacer, GridZeroCol, GridUnequal(<<1, 1>>, <<1, 1>>)}
      \cup {GridUniform(f[1], f[2]) : f \in Factors2}

\* BorderBox(Box(30, 60), thickness=Thickness(1, 2, 4, 8)) of the docstring
BorderDoc == <<Leaf("Box", 30, 60), Border(1, Thickness(1, 2, 4, 8))>>

BorderTrees ==
    {BorderDoc}
      \cup {<<Leaf("Box", w, MaxMin - w), Border(1, Thickness(1, 1, 2, 2))>> :
               w \in 0..MaxMin}

\* LayerBox(Box(3, 6), Box(4, 5), matchsizes=...) of the docstring
LayerDoc(matchsizes) ==
    <<Leaf("Box", 3, 6), Leaf("Box", 4, 5), Layer(<<1, 2>>, matchsizes)>>

LayerTrees ==
    {LayerDoc(TRUE), LayerDoc(FALSE),
     <<Leaf("Box", 0, 0), Leaf("Box", 1, 0), Layer(<<1, 2>>, TRUE)>>}

\* LayerBox(bg, BorderBox(GridBox([[sprite, spacer]]))) as Panel nests them
NestedPanel ==
    <<Leaf("Box", 1, 1),
      Leaf("Sprite", 2, 1), Leaf("Box", 0, 1),
      Grid(<< <<2, 3>> >>, <<0, 1>>, <<1>>),
      Border(4, Thickness(1, 1, 2, 2)),
      Layer(<<1, 5>>, TRUE)>>

\* a BorderBox around a grid of unequal cells, inside a GridBox
NestedGrid ==
    <<Leaf("Box", 1, 2), Leaf("Box", 2, 1),
      Grid(<< <<1>>, <<2>> >>, <<1>>, <<1, 1>>),
      Border(3, Thickness(0, 1, 0, 1)),
      Leaf("BorderVEdge", 1, 1),
      Grid(<< <<5, 4>> >>, <<0, 1>>, <<1>>)>>

NestedTrees == {NestedPanel, NestedGrid}

\* the composite trees
Scenarios == GridTrees \cup BorderTrees \cup LayerTrees \cup NestedTrees

(***************************************************************************)
(* The caller.                                                             *)
(***************************************************************************)
Top == Len(shape)

Call(op, n, a1, a2, err) == [op |-> op, node |-> n, a1 |-> a1, a2 |-> a2, err |-> err]

\* untouched while boxes are laid out
NoDist == [excess |-> 0, factors |-> <<>>, exp |-> <<>>, done |-> FALSE, grown |-> 0]

\* no Multi, no cached image, no file, no Counter
NoMulti == [items |-> <<>>, op |-> "none", given |-> 0, called |-> <<>>,
            result |-> None, err |-> "ok"]
NoCache == <<>>
NoLoader == [files |-> {}, op |-> "none", key |-> None, result |-> None,
             err |-> "ok", loads |-> 0]
NoCounter == [numdigits |-> 0, state |-> 0, digits |-> <<>>, text |-> <<>>,
              assigned |-> 0, err |-> "ok"]

\* the sizes a caller passes to expand on node n along one axis
SizeArgs(min) ==
    {None} \cup {Some(v) : v \in {0} \cup {x \in (min - 1)..(min + MaxExcess) : x >= 0}}

\* the sizes passed to expand where offsets are exercised as well
CoarseSizeArgs(min) == {None, Some(min), Some(min + MaxExcess)}

\* the offsets a caller passes to set_parentoffset / set_localoffset
OffsetArgs == {None, Some(0), Some(MaxOffset)}

\* every leaf is built (at its image size / given minimum) before any composite
InitTree(trees) ==
    /\ shape \in trees
    /\ boxes = [n \in 1..Len(shape) |->
                  IF shape[n].kind \in LeafKinds
                  THEN BoxInit(shape[n].minwidth, shape[n].minheight)
                  ELSE BoxInit(0, 0)]
    /\ built = {n \in 1..Len(shape) : shape[n].kind \in LeafKinds}
    /\ last = Call("init", 0, None, None, "ok")
    /\ dist = NoDist
    /\ drawn = <<>>
    /\ multi = NoMulti
    /\ cache = NoCache
    /\ loader = NoLoader
    /\ counter = NoCounter

Init == InitTree(Scenarios)

\* the caller wraps already built boxes, none of them owned yet, in node n
Construct(n) ==
    /\ n \notin built
    /\ KidSet(n) \subseteq Roots
    /\ LET r == construct(boxes, n)
       IN /\ boxes' = IF r.err = "ok" THEN r.b ELSE [r.b EXCEPT ![n] = BoxInit(0, 0)]
          /\ built' = IF r.err = "ok" THEN built \cup {n} ELSE built
          /\ last' = Call("construct", n, None, None, r.err)
    /\ UNCHANGED <<shape, dist, drawn, multi, cache, loader, counter>>

\* n.expand(width, height)
Expand(n, width, height) ==
    /\ n \in built
    /\ LET r == expand(boxes, n, width, height)
       IN /\ boxes' = r.b
          /\ last' = Call("expand", n, width, height, r.err)
    /\ UNCHANGED <<shape, built, dist, drawn, multi, cache, loader, counter>>

\* n.set_parentoffset(x, y)
SetParentOffset(n, x, y) ==
    /\ n \in built
    /\ boxes' = set_parentoffset(boxes, n, x, y)
    /\ last' = Call("set_parentoffset", n, x, y, "ok")
    /\ UNCHANGED <<shape, built, dist, drawn, multi, cache, loader, counter>>

\* n.set_localoffset(x, y)
SetLocalOffset(n, x, y) ==
    /\ n \in built
    /\ boxes' = set_localoffset(boxes, n, x, y)
    /\ last' = Call("set_localoffset", n, x, y, "ok")
    /\ UNCHANGED <<shape, built, dist, drawn, multi, cache, loader, counter>>

\* the tree is built bottom-up, then the caller resizes its root
Next ==
    \/ \E n \in Nodes : Construct(n)
    \/ \E w \in SizeArgs(boxes[Top].minwidth), h \in SizeArgs(boxes[Top].minheight) :
          Expand(Top, w, h)

Spec == Init /\ [][Next]_vars

\* the same caller, over the trees of one class
SpecGrid == InitTree(GridTrees) /\ [][Next]_vars
SpecBorder == InitTree(BorderTrees) /\ [][Next]_vars
SpecLayer == InitTree(LayerTrees) /\ [][Next]_vars

\* a leaf on its own is resized by the caller
NextLeaf ==
    \E w \in SizeArgs(boxes[Top].minwidth), h \in SizeArgs(boxes[Top].minheight) :
       Expand(Top, w, h)

SpecLeaf == InitTree(BoxTrees \cup LockedTrees) /\ [][NextLeaf]_vars

\* the trees that are resized and moved
OffsetScenarios ==
    {<<Leaf("Box", 1, 2)>>, GridDocRow, GridUnequal(<<1, 1>>, <<1, 1>>),
     GridUniform(<<0, 1>>, <<1, 3>>), GridSpacer, BorderDoc, LayerDoc(TRUE),
     LayerDoc(FALSE), NestedPanel, NestedGrid}

InitOffsets == InitTree(OffsetScenarios)

\* the tree is built bottom-up, then the caller resizes and moves its root
NextOffsets ==
    \/ \E n \in Nodes : Construct(n)
    \/ \E w \in CoarseSizeArgs(boxes[Top].minwidth),
          h \in CoarseSizeArgs(boxes[Top].minheight) : Expand(Top, w, h)
    \/ \E x \in OffsetArgs, y \in OffsetArgs : SetParentOffset(Top, x, y)
    \/ \E x \in OffsetArgs, y \in OffsetArgs : SetLocalOffset(Top, x, y)

SpecOffsets == InitOffsets /\ [][NextOffsets]_vars

\* the sizes passed to expand where every box of the tree is resized
AnySizeArgs(min) ==
    {None, Some(0), Some(min), Some(min + MaxExcess)}
      \cup {Some(v) : v \in {x \in {min - 1} : x >= 0}}

\* BorderBox(GridBox([[box]])): three levels
NestedBorder ==
    <<Leaf("Box", 1, 1), Grid(<< <<1>> >>, <<1>>, <<1>>), Border(2, Thickness(1, 1, 2, 2))>>

\* a grid row with a locked leaf
GridLocked ==
    <<Leaf("Box", 1, 1), Leaf("Sprite", 2, 1), Grid(<< <<1, 2>> >>, <<1, 0>>, <<1>>)>>

\* the trees whose inner boxes are resized too, before and after being wrapped
AnyScenarios ==
    {GridDocRow, LayerDoc(TRUE), NestedBorder, GridLocked,
     <<Leaf("BorderHEdge", 1, 1), Leaf("BorderVEdge", 1, 1), Layer(<<1, 2>>, FALSE)>>,
     <<Leaf("Box", 0, 1), Border(1, Thickness(1, 1, 2, 2))>>}

InitAny == InitTree(AnyScenarios)

\* n.expand(width, height) on any box the caller still holds a reference to;
\* of such a call only the box and the outcome are remembered
ExpandAny(n, width, height) ==
    /\ n \in built
    /\ LET r == expand(boxes, n, width, height)
       IN /\ boxes' = r.b
          /\ last' = Call("expand_any", n, None, None, r.err)
    /\ UNCHANGED <<shape, built, dist, drawn, multi, cache, loader, counter>>

\* the caller keeps references to the inner boxes and resizes any built box,
\* before and after wrapping it
NextAny ==
    \/ \E n \in Nodes : Construct(n)
    \/ \E n \in Nodes :
         \E w \in AnySizeArgs(boxes[n].minwidth), h \in AnySizeArgs(boxes[n].minheight) :
            ExpandAny(n, w, h)

SpecAny == InitAny /\ [][NextAny]_vars

\* HSplitBox(VSplitBox(b1, b2), b3): b1 and b2 side by side above b3
NestedSplit ==
    <<WeightedLeaf(1, 1, 1), WeightedLeaf(2, 1, 1), VSplit(<<1, 2>>, TRUE),
      WeightedLeaf(1, 2, 1), HSplit(<<3, 4>>, TRUE)>>

\* the trees whose inner composites are moved as well
MoveScenarios == {NestedPanel, NestedBorder, GridUnequal(<<1, 1>>, <<1, 1>>), NestedSplit}

\* the offsets passed where every composite of the tree is moved
MoveArgs == {None, Some(MaxOffset)}

InitMove == InitTree(MoveScenarios)

\* n.set_parentoffset(x, y) on any composite the caller still holds a
\* reference to; of such a call only the box is remembered
SetParentOffsetAny(n, x, y) ==
    /\ n \in built
    /\ ~IsLeaf(n)
    /\ boxes' = set_parentoffset(boxes, n, x, y)
    /\ last' = Call("set_parentoffset_any", n, None, None, "ok")
    /\ UNCHANGED <<shape, built, dist, drawn, multi, cache, loader, counter>>

\* n.set_localoffset(x, y), likewise
SetLocalOffsetAny(n, x, y) ==
    /\ n \in built
    /\ ~IsLeaf(n)
    /\ boxes' = set_localoffset(boxes, n, x, y)
    /\ last' = Call("set_localoffset_any", n, None, None, "ok")
    /\ UNCHANGED <<shape, built, dist, drawn, multi, cache, loader, counter>>

\* the caller keeps references to the inner composites and moves any of
\* them, before and after it is wrapped and before and after the tree is grown
NextMove ==
    \/ \E n \in Nodes : Construct(n)
    \/ \E n \in Nodes : \E x \in MoveArgs, y \in MoveArgs : SetParentOffsetAny(n, x, y)
    \/ \E n \in Nodes : \E x \in MoveArgs, y \in MoveArgs : SetLocalOffsetAny(n, x, y)
    \/ ExpandAny(Top, Some(boxes[Top].minwidth + MaxExcess),
                      Some(boxes[Top].minheight + MaxExcess))

SpecMove == InitMove /\ [][NextMove]_vars

\* root.draw() on a box that is not inside another one
Draw(n) ==
    /\ n \in Roots
    /\ drawn' = draw(n)
    /\ last' = Call("draw", n, None, None, "ok")
    /\ UNCHANGED <<shape, boxes, built, dist, multi, cache, loader, counter>>

\* the tree is built bottom-up; the caller resizes its root and draws what
\* it has built so far
NextDraw ==
    \/ \E n \in Nodes : Construct(n)
    \/ \E w \in CoarseSizeArgs(boxes[Top].minwidth),
          h \in CoarseSizeArgs(boxes[Top].minheight) : Expand(Top, w, h)
    \/ \E n \in Nodes : Draw(n)

SpecDraw == Init /\ [][NextDraw]_vars

(***************************************************************************)
(* A split box next to the grid with one row (one column) built over       *)
(* copies of the same sub-boxes, given the same calls.                     *)
(***************************************************************************)
\* the sub-boxes have expand factors 0..MaxFactor
MaxFactor == 1

\* VSplitBox(b1, b2, matchheights=True) and
\* GridBox([[c1, c2]], colfactors=[f1, f2]), c1 and c2 built like b1 and b2
VSplitPair(l1, l2) ==
    <<l1, l2, VSplit(<<1, 2>>, TRUE),
      l1, l2, Grid(<< <<4, 5>> >>, <<l1.expandfactor, l2.expandfactor>>, <<1>>)>>

\* HSplitBox(b1, b2, matchwidths=True) and
\* GridBox([[c1], [c2]], rowfactors=[f1, f2])
HSplitPair(l1, l2) ==
    <<l1, l2, HSplit(<<1, 2>>, TRUE),
      l1, l2, Grid(<< <<4>>, <<5>> >>, <<1>>, <<l1.expandfactor, l2.expandfactor>>)>>

SplitNode == 3
SplitGridNode == 6

SplitLeaves ==
    {WeightedLeaf(w, h, f) : w \in 1..MaxMin, h \in 1..MaxMin, f \in 0..MaxFactor}

SplitScenarios ==
    {VSplitPair(WeightedLeaf(1, 1, f), l2) : f \in 0..MaxFactor, l2 \in SplitLeaves}
      \cup {HSplitPair(WeightedLeaf(1, 1, f), l2) : f \in 0..MaxFactor, l2 \in SplitLeaves}

\* split.expand(width, height) and then grid.expand(width, height)
ExpandBoth(width, height) ==
    /\ {SplitNode, SplitGridNode} \subseteq built
    /\ last.err = "ok"
    /\ LET s == expand(boxes, SplitNode, width, height)
           g == expand(s.b, SplitGridNode, width, height)
       IN /\ boxes' = g.b
          /\ last' = Call("expand_both", SplitNode, width, height,
                          IF s.err # "ok" THEN s.err ELSE g.err)
    /\ UNCHANGED <<shape, built, dist, drawn, multi, cache, loader, counter>>

\* both boxes are built, then given the same calls for as long as they return
NextSplit ==
    \/ \E n \in Nodes : Construct(n)
    \/ \E w \in CoarseSizeArgs(boxes[SplitNode].minwidth),
          h \in CoarseSizeArgs(boxes[SplitNode].minheight) : ExpandBoth(w, h)

SpecSplit == InitTree(SplitScenarios) /\ [][NextSplit]_vars

(***************************************************************************)
(* The Display tree, built in the order of Display.__init__.  Nodes are    *)
(* numbered in the order the code creates them; the ...At operators build  *)
(* the part whose first node is o + 1.                                     *)
(***************************************************************************)
\* Border(image, skin): the 3x3 grid of border pieces around m = Box(0, 0);
\* the edge images are 1 pixel along their free axis
BorderGridAt(o, th) ==
    <<Leaf("BorderCorner", th.l, th.t), Leaf("BorderHEdge", 1, th.t),
      Leaf("BorderCorner", th.r, th.t),
      Leaf("BorderVEdge", th.l, 1), Leaf("Box", 0, 0), Leaf("BorderVEdge", th.r, 1),
      Leaf("BorderCorner", th.l, th.b), Leaf("BorderHEdge", 1, th.b),
      Leaf("BorderCorner", th.r, th.b),
      Grid(<< <<o + 1, o + 2, o + 3>>, <<o + 4, o + 5, o + 6>>, <<o + 7, o + 8, o + 9>> >>,
           <<0, 1, 0>>, <<0, 1, 0>>)>>

BorderGridLen == 10

\* Counter(image, skin, numdigits=n): border, digits,
\* LayerBox(BorderBox(GridBox([digits]), thickness=border.thickness), border)
CounterAt(o, sk, n) ==
    LET d == o + BorderGridLen
    IN BorderGridAt(o, sk.th)
         \o [i \in 1..n |-> Leaf("Sprite", sk.digit[1], sk.digit[2])]
         \o <<Grid(<< [i \in 1..n |-> d + i] >>, [i \in 1..n |-> 1], <<1>>),
              Border(d + n + 1, sk.th),
              Layer(<<d + n + 2, o + BorderGridLen>>, TRUE)>>

CounterLen(n) == BorderGridLen + n + 3

\* Panel(image, skin, lcountersize=l, rcountersize=r)
PanelAt(o, sk, l, r) ==
    LET bg == o + 1
        border == bg + BorderGridLen
        lcounter == border + CounterLen(l)
        face == lcounter + 1
        rcounter == face + CounterLen(r)
    IN <<Leaf("Box", sk.bg[1], sk.bg[2])>>
         \o BorderGridAt(bg, sk.th)
         \o CounterAt(border, sk, l)
         \o <<Leaf("Sprite", sk.face[1], sk.face[2])>>
         \o CounterAt(face, sk, r)
         \o <<Leaf("Box", 0, 0), Leaf("Box", 0, 0),
              GridNoneRow(<< <<lcounter, rcounter + 1, face, rcounter + 2, rcounter>> >>,
                          <<0, 1, 0, 1, 0>>),
              Border(rcounter + 3, sk.th),
              Layer(<<bg, rcounter + 4, border>>, TRUE)>>

PanelLen(l, r) == 1 + BorderGridLen + CounterLen(l) + 1 + CounterLen(r) + 5

\* Board(image, skin, boardcols=cols, boardrows=rows)
BoardAt(o, sk, cols, rows) ==
    LET bg == o + 1
        border == bg + BorderGridLen
        tilesbox == border + rows * cols + 1
    IN <<Leaf("Box", sk.bg[1], sk.bg[2])>>
         \o BorderGridAt(bg, sk.th)
         \o [i \in 1..(rows * cols) |-> Leaf("Sprite", sk.tile[1], sk.tile[2])]
         \o <<Grid([i \in 1..rows |-> [j \in 1..cols |-> border + (i - 1) * cols + j]],
                   [j \in 1..cols |-> 1], [i \in 1..rows |-> 1]),
              Leaf("Box", 0, 0), Leaf("Box", 0, 0),
              Grid(<< <<tilesbox + 1, tilesbox, tilesbox + 2>> >>, <<1, 0, 1>>, <<1>>),
              Border(tilesbox + 3, sk.th),
              Layer(<<bg, tilesbox + 4, border>>, TRUE)>>

BoardLen(cols, rows) == 1 + BorderGridLen + rows * cols + 6

\* Display(image, skin, lcountersize=l, rcountersize=r, boardcols=cols,
\* boardrows=rows)
DisplayTree(sk, l, r, cols, rows) ==
    LET panel == BorderGridLen + PanelLen(l, r)
        board == panel + BoardLen(cols, rows)
    IN BorderGridAt(0, sk.th)
         \o PanelAt(BorderGridLen, sk, l, r)
         \o BoardAt(panel, sk, cols, rows)
         \o <<Grid(<< <<panel>>, <<board>> >>, <<1>>, <<1, 1>>),
              Border(board + 1, sk.th),
              Layer(<<board + 2, BorderGridLen>>, TRUE)>>

\* the image sizes of a skin that passes validate_skin: the sprites of a
\* group have one size, the pieces of a border one thickness per side
Skins ==
    {[th |-> Thickness(t, t, t, t), bg |-> <<1, 1>>, digit |-> <<1, dh>>,
      face |-> <<2, fh>>, tile |-> <<2, 2>>] :
        t \in 1..MaxMin, dh \in 1..MaxMin, fh \in 1..(3 * MaxMin)}

DisplayScenarios == {DisplayTree(sk, 1, 1, 1, 1) : sk \in Skins}

\* the next constructor call of Display.__init__: the first node not built
\* yet; an exception ends the construction
ConstructNext ==
    /\ last.err = "ok"
    /\ \E n \in Nodes :
          /\ n \notin built
          /\ \A m \in 1..(n - 1) : m \in built
          /\ Construct(n)

SpecDisplay == InitTree(DisplayScenarios) /\ [][ConstructNext]_vars

(***************************************************************************)
(* A Multi and its caller.                                                 *)
(***************************************************************************)
\* a Multi is given up to MaxItems items
MaxItems == 3

Items == {Item(i, r) : i \in 1..MaxItems, r \in BOOLEAN}

\* the argument lists of Multi(*items): distinct items in any order
ItemSeqs ==
    {s \in UNION {[1..k -> Items] : k \in 0..MaxItems} :
        \A i, j \in 1..Len(s) : i # j => s[i].id # s[j].id}

\* nothing but the Multi exists
InitMulti ==
    /\ shape = <<>>
    /\ boxes = <<>>
    /\ built = {}
    /\ last = Call("init", 0, None, None, "ok")
    /\ dist = NoDist
    /\ drawn = <<>>
    /\ multi = NoMulti
    /\ cache = NoCache
    /\ loader = NoLoader
    /\ counter = NoCounter

\* m = Multi(*items)
NewMulti(items) ==
    /\ multi.op = "none"
    /\ LET r == MultiInit(items)
       IN multi' = [items |-> r.items, op |-> "Multi", given |-> Len(items),
                    called |-> <<>>, result |-> None, err |-> r.err]
    /\ UNCHANGED <<shape, boxes, built, last, dist, drawn, cache, loader, counter>>

\* m = m.multi_map(map_); when it raises the caller keeps the Multi it had
MultiMap(map_) ==
    /\ multi.items # <<>>
    /\ LET r == multi_map(multi.items, map_)
       IN multi' = [items |-> IF r.err = "ok" THEN r.items ELSE multi.items,
                    op |-> "multi_map", given |-> Len(MapResult(multi.items, map_)),
                    called |-> <<>>, result |-> None, err |-> r.err]
    /\ UNCHANGED <<shape, boxes, built, last, dist, drawn, cache, loader, counter>>

\* m = m.multi_filter(filter_)
MultiFilter(filter_) ==
    /\ multi.items # <<>>
    /\ LET r == multi_filter(multi.items, filter_)
       IN multi' = [items |-> IF r.err = "ok" THEN r.items ELSE multi.items,
                    op |-> "multi_filter",
                    given |-> Len(SelectSeq(multi.items, LAMBDA item : filter_[item.id])),
                    called |-> <<>>, result |-> None, err |-> r.err]
    /\ UNCHANGED <<shape, boxes, built, last, dist, drawn, cache, loader, counter>>

\* m.call_one()
CallOne ==
    /\ multi.items # <<>>
    /\ LET r == call_one(multi.items)
       IN multi' = [items |-> multi.items, op |-> "call_one", given |-> 0,
                    called |-> r.called, result |-> r.result, err |-> r.err]
    /\ UNCHANGED <<shape, boxes, built, last, dist, drawn, cache, loader, counter>>

NextMulti ==
    \/ \E items \in ItemSeqs : NewMulti(items)
    \/ \E map_ \in [1..MaxItems -> MapOutcomes] : MultiMap(map_)
    \/ \E filter_ \in [1..MaxItems -> BOOLEAN] : MultiFilter(filter_)
    \/ CallOne

SpecMulti == InitMulti /\ [][NextMulti]_vars

(***************************************************************************)
(* The image cache and its callers.                                        *)
(***************************************************************************)
\* images are loaded at most MaxLoads times
MaxLoads == 3

\* Skin(Multi(Dir(skindir), Dir('images'))) of the doctests, and loaders on
\* the two directories themselves
Dirs == {"images_d_tiles", "images"}
Sources ==
    {DirSource("images_d_tiles"), DirSource("images"),
     MultiSource(<<"images_d_tiles", "images">>)}
Paths == {"bg.png", "border/t.png"}

\* the paths given to one preload call
PathSeqs ==
    {s \in UNION {[1..k -> Paths] : k \in 1..2} : \A i, j \in 1..Len(s) : i # j => s[i] # s[j]}

\* the cache is empty; some of the files exist
InitCache ==
    /\ shape = <<>>
    /\ boxes = <<>>
    /\ built = {}
    /\ last = Call("init", 0, None, None, "ok")
    /\ dist = NoDist
    /\ drawn = <<>>
    /\ multi = NoMulti
    /\ cache = NoCache
    /\ \E files \in SUBSET (Dirs \X Paths) : loader = [NoLoader EXCEPT !.files = files]
    /\ counter = NoCounter

\* ImageLoader(source, path).open(), on whatever instance
Open(source, path) ==
    /\ loader.loads < MaxLoads
    /\ LET r == open(cache, loader.loads, loader.files, source, path)
       IN /\ cache' = r.cache
          /\ loader' = [files |-> loader.files, op |-> "open",
                        key |-> Some(<<source, path>>), result |-> r.result,
                        err |-> r.err, loads |-> r.loads]
    /\ UNCHANGED <<shape, boxes, built, last, dist, drawn, multi, counter>>

\* ImageLoader(source).preload(*paths)
Preload(source, paths) ==
    /\ loader.loads + Len(paths) <= MaxLoads
    /\ LET r == preload(cache, loader.loads, loader.files, source, paths, 1)
       IN /\ cache' = r.cache
          /\ loader' = [files |-> loader.files, op |-> "preload",
                        key |-> Some(<<source, paths>>), result |-> None,
                        err |-> r.err, loads |-> r.loads]
    /\ UNCHANGED <<shape, boxes, built, last, dist, drawn, multi, counter>>

\* loader.cache = {}: the setter rebinds ImageLoader._cache
SetCache ==
    /\ cache # NoCache
    /\ cache' = NoCache
    /\ loader' = [loader EXCEPT !.op = "cache", !.key = None, !.result = None,
                                !.err = "ok"]
    /\ UNCHANGED <<shape, boxes, built, last, dist, drawn, multi, counter>>

NextCache ==
    \/ \E source \in Sources, path \in Paths : Open(source, path)
    \/ \E source \in Sources, paths \in PathSeqs : Preload(source, paths)
    \/ SetCache

SpecCache == InitCache /\ [][NextCache]_vars

(***************************************************************************)
(* A Counter and its caller.                                               *)
(***************************************************************************)
\* counters have 1..MaxDigits digits
MaxDigits == 3

\* the values assigned lie within MaxOver of 0 and of the powers of ten
MaxOver == 3

CounterValues(numdigits) ==
    UNION {{d, Pow10(k) + d, -Pow10(k) + d} : k \in 0..numdigits, d \in (-MaxOver)..MaxOver}

\* no Counter yet
InitCounter ==
    /\ shape = <<>>
    /\ boxes = <<>>
    /\ built = {}
    /\ last = Call("init", 0, None, None, "ok")
    /\ dist = NoDist
    /\ drawn = <<>>
    /\ multi = NoMulti
    /\ cache = NoCache
    /\ loader = NoLoader
    /\ counter = NoCounter

\* Counter(image, skin, init_val=init_val, numdigits=numdigits): the digits
\* are created Off, then self.state = init_val
NewCounter(numdigits, init_val) ==
    /\ counter.numdigits = 0
    /\ counter' = SetCounterState([NoCounter EXCEPT
                                     !.numdigits = numdigits,
                                     !.digits = [i \in 1..numdigits |-> "Off"]],
                                  init_val)
    /\ UNCHANGED <<shape, boxes, built, last, dist, drawn, multi, cache, loader>>

\* counter.state = value
SetCounter(value) ==
    /\ counter.numdigits > 0
    /\ counter' = SetCounterState(counter, value)
    /\ UNCHANGED <<shape, boxes, built, last, dist, drawn, multi, cache, loader>>

NextCounter ==
    \/ \E numdigits \in 1..MaxDigits : NewCounter(numdigits, 0)
    \/ \E value \in CounterValues(counter.numdigits) : SetCounter(value)

SpecCounter == InitCounter /\ [][NextCounter]_vars

(***************************************************************************)
(* The cumulative-floor distribution on its own: the loop of               *)
(* GridBox.expand (and of HSplitBox.expand / VSplitBox.expand, which run   *)
(* the same statements over the sub-boxes' expandfactors) applied to one   *)
(* excess and one vector of weights.                                       *)
(***************************************************************************)
\* a distribution runs over 1..MaxBuckets columns or rows
MaxBuckets == 3

WeightVectors == UNION {[1..k -> 0..MaxWeight] : k \in 1..MaxBuckets}

InitDist ==
    /\ shape = <<>>
    /\ boxes = <<>>
    /\ built = {}
    /\ last = Call("init", 0, None, None, "ok")
    /\ drawn = <<>>
    /\ multi = NoMulti
    /\ cache = NoCache
    /\ loader = NoLoader
    /\ counter = NoCounter
    /\ \E e \in 0..MaxDistExcess, f \in WeightVectors :
          dist = [excess |-> e, factors |-> f, exp |-> <<>>, done |-> FALSE, grown |-> 0]

\* the loop over zip(cols, cumcolfactors): one exp per bucket
Distribute ==
    /\ ~dist.done
    /\ SeqSum(dist.factors) # 0
    /\ dist' = [dist EXCEPT
                  !.exp = [i \in 1..Len(dist.factors) |->
                             Exp(dist.excess, accumulate(dist.factors), i)],
                  !.done = TRUE]
    /\ UNCHANGED <<shape, boxes, built, last, drawn, multi, cache, loader, counter>>

\* "None of the columns want to expand so we don't expand at all."
DistributeNothing ==
    /\ ~dist.done
    /\ SeqSum(dist.factors) = 0
    /\ dist' = [dist EXCEPT !.done = TRUE]
    /\ UNCHANGED <<shape, boxes, built, last, drawn, multi, cache, loader, counter>>

NextDist == Distribute \/ DistributeNothing

SpecDist == InitDist /\ [][NextDist]_vars

\* the next expand asks for one more: the loop runs again over the same
\* weights with the excess grown by 1
Grow ==
    /\ dist.done
    /\ SeqSum(dist.factors) # 0
    /\ dist.excess < MaxDistExcess
    /\ dist' = [dist EXCEPT
                  !.excess = dist.excess + 1,
                  !.grown = dist.grown + 1,
                  !.exp = [i \in 1..Len(dist.factors) |->
                             Exp(dist.excess + 1, accumulate(dist.factors), i)]]
    /\ UNCHANGED <<shape, boxes, built, last, drawn, multi, cache, loader, counter>>

NextGrow == Distribute \/ DistributeNothing \/ Grow

SpecGrow == InitDist /\ [][NextGrow]_vars

(***************************************************************************)
(* Properties.                                                             *)
(***************************************************************************)
\* the last call was op on a built box of class kind and returned normally
Returned(op, kind) ==
    /\ last.op = op
    /\ last.err = "ok"
    /\ last.node \in built
    /\ shape[last.node].kind = kind

\* the widths of the cells of row r of grid n, summed over columns 1..upto
RowWidths(n, r, upto) == SeqSum([c \in 1..upto |-> boxes[Cell(n, r, c)].width])

\* the heights of the cells of column c of grid n, summed over rows 1..upto
ColHeights(n, c, upto) == SeqSum([r \in 1..upto |-> boxes[Cell(n, r, c)].height])

\* C1: after a GridBox.expand(w, h) that returns, with both axes supplied and
\* non-zero total column and row weight, the cell widths of every row sum to
\* w and the cell heights of every column sum to h.
GridSumsExact ==
    ( /\ Returned("expand", "GridBox")
      /\ ~IsNone(last.a1) /\ ~IsNone(last.a2)
      /\ sumcolfactors(last.node) # 0 /\ sumrowfactors(last.node) # 0 )
    => LET n == last.node
       IN /\ \A r \in 1..NumRows(n) : RowWidths(n, r, NumCols(n)) = Val(last.a1)
          /\ \A c \in 1..NumCols(n) : ColHeights(n, c, NumRows(n)) = Val(last.a2)

\* the floor of a / b for a >= 0, b > 0, as the q with q*b <= a < (q+1)*b
Floor(a, b) == CHOOSE q \in 0..a : q * b <= a /\ a < (q + 1) * b

\* the sum of the first i weights
CumWeight(f, i) == SeqSum(SubSeq(f, 1, i))

\* C2: for an excess >= 0 and non-negative weights of total T > 0 the i-th
\* expansion is floor(excess*cum[i]/T) - floor(excess*cum[i-1]/T), with
\* cum[0] = 0; no expansion is negative and the expansions sum to the excess.
DistributionLaw ==
    (dist.done /\ SeqSum(dist.factors) # 0)
    => LET T == SeqSum(dist.factors)
       IN /\ Len(dist.exp) = Len(dist.factors)
          /\ \A i \in 1..Len(dist.factors) :
                /\ dist.exp[i] = Floor(dist.excess * CumWeight(dist.factors, i), T)
                                 - Floor(dist.excess * CumWeight(dist.factors, i - 1), T)
                /\ dist.exp[i] >= 0
          /\ SeqSum(dist.exp) = dist.excess

\* excess 3 over the weights (1, 3) of the docstring is split (0, 3); two
\* equal weights leave the odd unit to the second bucket
DistributionSeen ==
    /\ dist.done
    /\ \/ dist.excess = 3 /\ dist.factors = <<1, 3>> /\ dist.exp = <<0, 3>>
       \/ dist.excess = 5 /\ dist.factors = <<1, 1>> /\ dist.exp = <<2, 3>>

\* C3: after GridBox construction and after every GridBox.expand that
\* returns, the cells of a column have one width and the cells of a row have
\* one height.
GridMatching ==
    (Returned("construct", "GridBox") \/ Returned("expand", "GridBox"))
    => LET n == last.node
       IN /\ \A c \in 1..NumCols(n) : \A r1, r2 \in 1..NumRows(n) :
                boxes[Cell(n, r1, c)].width = boxes[Cell(n, r2, c)].width
          /\ \A r \in 1..NumRows(n) : \A c1, c2 \in 1..NumCols(n) :
                boxes[Cell(n, r, c1)].height = boxes[Cell(n, r, c2)].height

\* C4: after construction, expand, set_parentoffset or set_localoffset of a
\* GridBox has returned, the parent offset of cell (r, c) is the grid's offset
\* plus the widths of the cells left of it in its row (x) and the heights of
\* the cells above it in its column (y).
GridOffsets ==
    ( \/ Returned("construct", "GridBox") \/ Returned("expand", "GridBox")
      \/ Returned("set_parentoffset", "GridBox")
      \/ Returned("set_localoffset", "GridBox") )
    => LET n == last.node
       IN \A r \in 1..NumRows(n) : \A c \in 1..NumCols(n) :
             /\ boxes[Cell(n, r, c)].parentoffset_x
                  = offset_x(boxes, n) + RowWidths(n, r, c - 1)
             /\ boxes[Cell(n, r, c)].parentoffset_y
                  = offset_y(boxes, n) + ColHeights(n, c, r - 1)

\* C5: after BorderBox construction and after every BorderBox.expand that
\* returns, the child's size plus the thickness is the border's size.
BorderSizeRelation ==
    (Returned("construct", "BorderBox") \/ Returned("expand", "BorderBox"))
    => LET n == last.node
           inner == Kids(n)[1]
       IN /\ boxes[inner].width + shape[n].thickness.l + shape[n].thickness.r
               = boxes[n].width
          /\ boxes[inner].height + shape[n].thickness.t + shape[n].thickness.b
               = boxes[n].height

LayerMatchSizes ==
    /\ (Returned("construct", "LayerBox") /\ shape[last.node].matchsizes)
       => \A k \in KidSet(last.node) :
             /\ boxes[k].width = boxes[last.node].minwidth
             /\ boxes[k].height = boxes[last.node].minheight
    /\ ( /\ Returned("expand", "LayerBox") /\ shape[last.node].matchsizes
         /\ ~IsNone(last.a1) /\ ~IsNone(last.a2) )
       => \A k \in KidSet(last.node) \cup {last.node} :
             /\ boxes[k].width = Val(last.a1)
             /\ boxes[k].height = Val(last.a2)
             /\ k # last.node =>
                  /\ boxes[k].parentoffset_x = offset_x(boxes, last.node)
                  /\ boxes[k].parentoffset_y = offset_y(boxes, last.node)

\* a supplied size below the minimum
Undersized(size, min) == ~IsNone(size) /\ Val(size) < min

\* C8: Box.expand with a supplied width below minwidth or a supplied height
\* below minheight raises TooSmallError and changes neither width nor height.
BoxRejectsUndersize ==
    [][ ( /\ last'.op = "expand"
          /\ shape[last'.node].kind = "Box"
          /\ \/ Undersized(last'.a1, boxes[last'.node].minwidth)
             \/ Undersized(last'.a2, boxes[last'.node].minheight) )
        => /\ last'.err = "TooSmallError"
           /\ boxes'[last'.node].width = boxes[last'.node].width
           /\ boxes'[last'.node].height = boxes[last'.node].height ]_vars

\* the axis after Box.expand as C9 states it: the supplied value, or the
\* current value when None is passed
Applied(size, current) == IF IsNone(size) THEN current ELSE Val(size)

\* C9: Box.expand with every supplied value at least the axis's minimum
\* returns and leaves each axis at the supplied value, or at its current
\* value where None was passed.
BoxAppliesValid ==
    [][ ( /\ last'.op = "expand"
          /\ shape[last'.node].kind = "Box"
          /\ ~Undersized(last'.a1, boxes[last'.node].minwidth)
          /\ ~Undersized(last'.a2, boxes[last'.node].minheight) )
        => /\ last'.err = "ok"
           /\ boxes'[last'.node].width = Applied(last'.a1, boxes[last'.node].width)
           /\ boxes'[last'.node].height = Applied(last'.a2, boxes[last'.node].height) ]_vars

\* every built box is at least as large as its minimum
AtLeastMinimum ==
    \A n \in built :
       boxes[n].width >= boxes[n].minwidth /\ boxes[n].height >= boxes[n].minheight

\* no step changes the minimum size of a built box
MinimumsFixed ==
    \A n \in built :
       boxes'[n].minwidth = boxes[n].minwidth /\ boxes'[n].minheight = boxes[n].minheight

\* C10: whatever expand calls, returning or raising, are made on whatever
\* boxes of a tree, every box keeps width >= minwidth and height >=
\* minheight, and the minimum of a constructed box never changes.
MinimumSizeInvariant == []AtLeastMinimum /\ [][MinimumsFixed]_vars

\* an expand on a wrapped box raised while some composite was grown
InnerExpandRaised ==
    /\ last.op = "expand_any"
    /\ last.err \in {"TooSmallError", "NotExpandableError"}
    /\ HasParent(last.node)
    /\ \E n \in built : ~IsLeaf(n) /\ boxes[n].width > boxes[n].minwidth

\* box n and every box below it
RECURSIVE Subtree(_)
Subtree(n) == {n} \cup UNION {Subtree(k) : k \in KidSet(n)}

\* the size and the offsets of a box
Geometry(b, n) ==
    <<b[n].width, b[n].height, b[n].localoffset_x, b[n].localoffset_y,
      b[n].parentoffset_x, b[n].parentoffset_y>>

\* a step left the size and the offsets of n and of every box below it alone
SubtreeUnchanged(n) == \A d \in Subtree(n) : Geometry(boxes', d) = Geometry(boxes, d)

\* expand arguments that ask for nothing new: no arguments, or the current size
AsksNoChange(n, width, height) ==
    \/ IsNone(width) /\ IsNone(height)
    \/ width = Some(boxes[n].width) /\ height = Some(boxes[n].height)

\* C11: on any constructed box, expand(None, None) and expand(current width,
\* current height) return and leave the size and the offsets of the box and
\* of every box below it unchanged.
ExpandIdempotent ==
    [][ (last'.op = "expand" /\ AsksNoChange(last'.node, last'.a1, last'.a2))
        => (last'.err = "ok" /\ SubtreeUnchanged(last'.node)) ]_vars

\* C12: an expand of a GridBox, LayerBox or BorderBox that raises
\* TooSmallError or NotExpandableError leaves the size and the offsets of
\* the box and of every box below it as they were before the call.
FailedExpandUnapplied ==
    [][ ( /\ last'.op = "expand"
          /\ last'.err \in {"TooSmallError", "NotExpandableError"}
          /\ ~IsLeaf(last'.node) )
        => SubtreeUnchanged(last'.node) ]_vars

\* the classes whose width / height is locked
WidthLocked == {"Sprite", "BorderCorner", "BorderVEdge"}
HeightLocked == {"Sprite", "BorderCorner", "BorderHEdge"}

\* a value is supplied on a locked axis of box n and differs from the
\* current size on that axis
LockedAxisDiffers(n, width, height) ==
    \/ /\ shape[n].kind \in WidthLocked
       /\ ~IsNone(width) /\ Val(width) # boxes[n].width
    \/ /\ shape[n].kind \in HeightLocked
       /\ ~IsNone(height) /\ Val(height) # boxes[n].height

\* C13: expand of a Sprite, BorderCorner (both axes locked), BorderVEdge
\* (width locked) or BorderHEdge (height locked) with a supplied value on a
\* locked axis that differs from the current one, 0 included, raises
\* NotExpandableError and leaves the size unchanged; with None or the
\* current value on every locked axis it does not raise NotExpandableError
\* (and returns when both axes are locked); no step changes a locked axis.
LockedLeaves ==
    [][ /\ ( /\ last'.op = "expand"
             /\ shape[last'.node].kind \in WidthLocked \cup HeightLocked )
          => IF LockedAxisDiffers(last'.node, last'.a1, last'.a2)
             THEN /\ last'.err = "NotExpandableError"
                  /\ boxes'[last'.node].width = boxes[last'.node].width
                  /\ boxes'[last'.node].height = boxes[last'.node].height
             ELSE /\ last'.err # "NotExpandableError"
                  /\ shape[last'.node].kind \in WidthLocked \cap HeightLocked
                       => last'.err = "ok"
        /\ \A n \in built :
              /\ shape[n].kind \in WidthLocked => boxes'[n].width = boxes[n].width
              /\ shape[n].kind \in HeightLocked => boxes'[n].height = boxes[n].height
      ]_vars

\* a locked axis was asked to become 0 and the call raised, and on another
\* leaf the free axis grew while the locked one was passed its current value
LockedZeroRejected ==
    /\ last.op = "expand"
    /\ \/ /\ shape[last.node].kind = "Sprite"
          /\ last.a1 = Some(0) /\ IsNone(last.a2)
          /\ last.err = "NotExpandableError"
       \/ /\ shape[last.node].kind = "BorderVEdge"
          /\ last.a1 = Some(boxes[last.node].width)
          /\ last.err = "ok"
          /\ boxes[last.node].height > boxes[last.node].minheight

\* C14: after a GridBox.expand that returns, on an axis that was supplied
\* with at least the grid's minimum and whose total weight is not 0, every
\* cell of a column (row) of weight 0 has exactly its own minimum width
\* (height): nothing of the excess went to it.
ZeroWeightFixed ==
    Returned("expand", "GridBox")
    => LET n == last.node
       IN /\ ( /\ ~IsNone(last.a1) /\ Val(last.a1) >= boxes[n].minwidth
               /\ sumcolfactors(n) # 0 )
             => \A c \in 1..NumCols(n) : \A r \in 1..NumRows(n) :
                   shape[n].colfactors[c] = 0
                   => boxes[Cell(n, r, c)].width = boxes[Cell(n, r, c)].minwidth
          /\ ( /\ ~IsNone(last.a2) /\ Val(last.a2) >= boxes[n].minheight
               /\ sumrowfactors(n) # 0 )
             => \A r \in 1..NumRows(n) : \A c \in 1..NumCols(n) :
                   shape[n].rowfactors[r] = 0
                   => boxes[Cell(n, r, c)].height = boxes[Cell(n, r, c)].minheight

\* C15: after a GridBox.expand(w, h) that returns, with w above the grid's
\* minimum width and a total column weight of 0, the grid and every cell
\* still have their minimum width; likewise for h, the total row weight and
\* the heights.
AllZeroWeightsStay ==
    Returned("expand", "GridBox")
    => LET n == last.node
       IN /\ ( /\ ~IsNone(last.a1) /\ Val(last.a1) > boxes[n].minwidth
               /\ sumcolfactors(n) = 0 )
             => /\ boxes[n].width = boxes[n].minwidth
                /\ \A k \in KidSet(n) : boxes[k].width = boxes[k].minwidth
          /\ ( /\ ~IsNone(last.a2) /\ Val(last.a2) > boxes[n].minheight
               /\ sumrowfactors(n) = 0 )
             => /\ boxes[n].height = boxes[n].minheight
                /\ \A k \in KidSet(n) : boxes[k].height = boxes[k].minheight

\* a component after a partial update: the argument, or the old value where
\* the argument is None
Updated(arg, old) == IF IsNone(arg) THEN old ELSE Val(arg)

\* C16: in every state a box's offset is (localoffset_x + parentoffset_x,
\* localoffset_y + parentoffset_y); set_localoffset(x, y) sets the local
\* components whose argument is not None (0 is a value) and leaves the other
\* local components and the parent components alone, set_parentoffset(x, y)
\* does the same for the parent components, and neither changes a width or
\* a height.
OffsetPartialUpdates ==
    [][ /\ \A n \in Nodes :
              offset(boxes, n) = <<boxes[n].localoffset_x + boxes[n].parentoffset_x,
                                   boxes[n].localoffset_y + boxes[n].parentoffset_y>>
        /\ last'.op = "set_localoffset"
           => /\ boxes'[last'.node].localoffset_x
                   = Updated(last'.a1, boxes[last'.node].localoffset_x)
              /\ boxes'[last'.node].localoffset_y
                   = Updated(last'.a2, boxes[last'.node].localoffset_y)
              /\ boxes'[last'.node].parentoffset_x = boxes[last'.node].parentoffset_x
              /\ boxes'[last'.node].parentoffset_y = boxes[last'.node].parentoffset_y
        /\ last'.op = "set_parentoffset"
           => /\ boxes'[last'.node].parentoffset_x
                   = Updated(last'.a1, boxes[last'.node].parentoffset_x)
              /\ boxes'[last'.node].parentoffset_y
                   = Updated(last'.a2, boxes[last'.node].parentoffset_y)
              /\ boxes'[last'.node].localoffset_x = boxes[last'.node].localoffset_x
              /\ boxes'[last'.node].localoffset_y = boxes[last'.node].localoffset_y
        /\ last'.op \in {"set_localoffset", "set_parentoffset"}
           => \A n \in Nodes : /\ boxes'[n].width = boxes[n].width
                               /\ boxes'[n].height = boxes[n].height
      ]_vars

\* set_localoffset(0, None) on a box that had been moved on every
\* component: x is back at 0, y and the parent offset are as they were
LocalOffsetResetToZero ==
    /\ last.op = "set_localoffset"
    /\ last.a1 = Some(0) /\ IsNone(last.a2)
    /\ boxes[last.node].localoffset_x = 0
    /\ boxes[last.node].localoffset_y = MaxOffset
    /\ boxes[last.node].parentoffset_x = MaxOffset
    /\ boxes[last.node].parentoffset_y = MaxOffset
    /\ offset(boxes, last.node) = <<MaxOffset, 2 * MaxOffset>>

\* the row and the column of child k in the table of p
RowOf(p, k) == CHOOSE r \in 1..NumRows(p) : \E c \in 1..NumCols(p) : Cell(p, r, c) = k
ColOf(p, k) == CHOOSE c \in 1..NumCols(p) : \E r \in 1..NumRows(p) : Cell(p, r, c) = k

\* where the layout rule of composite p puts its child k, given p's current
\* offset: a layer at its own offset, a border inset by its left and top
\* thickness, a VSplitBox after the widths of the sub-boxes before it, an
\* HSplitBox below the heights of the sub-boxes before it,
\* a grid at the column's left edge and the row's top edge, the
\* edges being the cumulative widths of the first row and the cumulative
\* heights of the first column (the column widths and row heights whenever
\* the cells of a column have one width and the cells of a row one height)
LayoutOffset(p, k) ==
    CASE shape[p].kind = "LayerBox" -> offset(boxes, p)
      [] shape[p].kind = "BorderBox" ->
           <<offset_x(boxes, p) + shape[p].thickness.l,
             offset_y(boxes, p) + shape[p].thickness.t>>
      [] shape[p].kind = "GridBox" ->
           <<offset_x(boxes, p) + RowWidths(p, 1, ColOf(p, k) - 1),
             offset_y(boxes, p) + ColHeights(p, 1, RowOf(p, k) - 1)>>
      [] shape[p].kind = "VSplitBox" ->
           <<offset_x(boxes, p) + RowWidths(p, 1, ColOf(p, k) - 1), offset_y(boxes, p)>>
      [] shape[p].kind = "HSplitBox" ->
           <<offset_x(boxes, p),
             offset_y(boxes, p)
               + SeqSum([c \in 1..(ColOf(p, k) - 1) |-> boxes[Cell(p, 1, c)].height])>>

\* C17: when set_parentoffset or set_localoffset has returned on a
\* composite, at whatever depth of the tree, every box below it has the
\* parent offset that its parent's layout rule gives for the parent's
\* current offset.
OffsetsPropagated ==
    last.op \in {"set_parentoffset_any", "set_localoffset_any"}
    => \A p \in Subtree(last.node) : \A k \in KidSet(p) :
          <<boxes[k].parentoffset_x, boxes[k].parentoffset_y>> = LayoutOffset(p, k)

\* a wrapped BorderBox around a grid was moved: the cells two levels below
\* it have followed
InnerBorderMoved ==
    /\ last.op = "set_localoffset_any"
    /\ shape[last.node].kind = "BorderBox"
    /\ HasParent(last.node)
    /\ boxes[last.node].localoffset_x = MaxOffset
    /\ boxes[last.node].parentoffset_y = MaxOffset
    /\ \E g \in KidSet(last.node) :
          /\ shape[g].kind = "GridBox"
          /\ \A k \in KidSet(g) :
                boxes[k].parentoffset_x >= MaxOffset + shape[last.node].thickness.l

\* C18: a BorderBox's minimum size is its child's minimum size plus the
\* thickness, whatever size the child had when it was wrapped (so that an
\* expand of the border is refused exactly when the inner size falls below
\* the child's minimum).
BorderMinimum ==
    \A n \in built :
       shape[n].kind = "BorderBox"
       => /\ boxes[n].minwidth
               = boxes[Kids(n)[1]].minwidth + shape[n].thickness.l + shape[n].thickness.r
          /\ boxes[n].minheight
               = boxes[Kids(n)[1]].minheight + shape[n].thickness.t + shape[n].thickness.b

\* the largest member of a non-empty set of numbers
Largest(S) == CHOOSE m \in S : \A x \in S : x <= m

\* the largest minimum width in column c / minimum height in row r of grid n
ColMinWidth(n, c) == Largest({boxes[Cell(n, r, c)].minwidth : r \in 1..NumRows(n)})
RowMinHeight(n, r) == Largest({boxes[Cell(n, r, c)].minheight : c \in 1..NumCols(n)})

\* C19: a constructed GridBox has as minimum width the sum over its columns
\* of the largest minimum width in the column and as minimum height the sum
\* over its rows of the largest minimum height in the row; when its
\* constructor returns its size is its minimum size.
GridMinimum ==
    /\ \A n \in built :
          shape[n].kind = "GridBox"
          => /\ boxes[n].minwidth = SeqSum([c \in 1..NumCols(n) |-> ColMinWidth(n, c)])
             /\ boxes[n].minheight = SeqSum([r \in 1..NumRows(n) |-> RowMinHeight(n, r)])
    /\ Returned("construct", "GridBox")
       => /\ boxes[last.node].width = boxes[last.node].minwidth
          /\ boxes[last.node].height = boxes[last.node].minheight

\* a grid of several rows and columns was built whose widest cell of a
\* column and whose highest cell of a row are not in the first row / column
GridBuiltUnequal ==
    /\ Returned("construct", "GridBox")
    /\ NumRows(last.node) > 1 /\ NumCols(last.node) > 1
    /\ ColMinWidth(last.node, 1) > boxes[Cell(last.node, 1, 1)].minwidth
    /\ RowMinHeight(last.node, 2) > boxes[Cell(last.node, 2, 2)].minheight

\* the leaves of the tree below n (n itself when it is a leaf)
LeavesOf(n) == {d \in Subtree(n) : IsLeaf(d)}

\* the place of leaf d in the last drawing
DrawnAt(d) == CHOOSE i \in 1..Len(drawn) : drawn[i] = d

\* child k1 is declared before child k2 in composite p: earlier among a
\* layer's sub-boxes, earlier in row-major order in a grid's table
DeclaredBefore(p, k1, k2) ==
    \/ RowOf(p, k1) < RowOf(p, k2)
    \/ RowOf(p, k1) = RowOf(p, k2) /\ ColOf(p, k1) < ColOf(p, k2)

\* C20: one draw() of a root draws every leaf below it exactly once and
\* nothing else, and for every composite of the tree the whole subtree of a
\* child is drawn before anything of a child declared after it (sub-box
\* order in a LayerBox, row-major order in a GridBox).
DrawOrder ==
    last.op = "draw"
    => /\ Len(drawn) = Cardinality(LeavesOf(last.node))
       /\ \A d \in LeavesOf(last.node) : \E i \in 1..Len(drawn) : drawn[i] = d
       /\ \A p \in Subtree(last.node) : \A k1, k2 \in KidSet(p) :
             DeclaredBefore(p, k1, k2)
             => \A d1 \in LeavesOf(k1), d2 \in LeavesOf(k2) : DrawnAt(d1) < DrawnAt(d2)

\* a tree of a layer over a border over a grid was drawn, and a grid of
\* several rows and columns was drawn
DrawnNested ==
    /\ last.op = "draw"
    /\ \/ /\ shape[last.node].kind = "LayerBox"
          /\ \E p \in Subtree(last.node) : shape[p].kind = "BorderBox"
          /\ Len(drawn) = 3
       \/ /\ shape[last.node].kind = "GridBox"
          /\ NumRows(last.node) > 1 /\ NumCols(last.node) > 1
          /\ Len(drawn) = 4

\* the size and offset of box n
SizeAndOffset(n) == <<boxes[n].width, boxes[n].height, offset(boxes, n)>>

\* C21: a split box and the one-row (one-column) grid over the same
\* sub-boxes and expand factors have the same own size, child sizes and
\* child offsets after construction and after the same successful expands.
SplitIsGrid ==
    ({SplitNode, SplitGridNode} \subseteq built /\ last.err = "ok")
      => /\ SizeAndOffset(SplitNode) = SizeAndOffset(SplitGridNode)
         /\ \A i \in 1..2 :
               SizeAndOffset(Kids(SplitNode)[i]) = SizeAndOffset(Kids(SplitGridNode)[i])

\* C22: for a valid skin every constructor call made while the Display tree
\* is built returns without raising, and every Sprite stays at its image
\* size.
DisplayBuilds ==
    /\ last.err = "ok"
    /\ \A n \in Nodes :
          shape[n].kind = "Sprite"
            => /\ boxes[n].width = shape[n].minwidth
               /\ boxes[n].height = shape[n].minheight

\* C23: call_one calls the items in the order given, stops at the first
\* item whose call returns and returns its result, raises RuntimeError
\* exactly when every call raised; Multi(), multi_map and multi_filter raise
\* RuntimeError exactly when they are left with zero items, so a Multi
\* never holds zero items.
FirstSuccessWins ==
    LET its == multi.items
        k == Len(multi.called)
    IN /\ multi.op = "call_one"
            => /\ k \in 1..Len(its)
               /\ \A i \in 1..k : multi.called[i] = its[i].id
               /\ \A i \in 1..(k - 1) : its[i].raises
               /\ multi.err \in {"ok", "RuntimeError"}
               /\ multi.err = "ok"
                    => ~its[k].raises /\ multi.result = Some(its[k].id)
               /\ multi.err = "RuntimeError"
                    <=> \A i \in 1..Len(its) : its[i].raises
       /\ multi.op \in {"Multi", "multi_map", "multi_filter"}
            => (multi.err = "RuntimeError" <=> multi.given = 0)
       /\ (multi.op # "none" /\ ~(multi.op = "Multi" /\ multi.err # "ok"))
            => Len(its) > 0

\* call_one returned the second of three items: the first raised, the third
\* was not called
SecondItemWon ==
    /\ multi.op = "call_one"
    /\ multi.err = "ok"
    /\ Len(multi.items) = 3
    /\ Len(multi.called) = 2
    /\ ~multi.items[3].raises

\* an open() of a cached key returns the cached image and changes nothing
OpenHit(key) ==
    /\ cache' = cache
    /\ loader'.result = Some(cache[key])
    /\ loader'.loads = loader.loads
    /\ loader'.err = "ok"

\* an open() of a key not cached loads once and adds that entry, or fails
\* and adds nothing
OpenMiss(key) ==
    IF loader'.err = "ok"
    THEN /\ DOMAIN cache' = DOMAIN cache \cup {key}
         /\ \A k \in DOMAIN cache : cache'[k] = cache[k]
         /\ loader'.result = Some(cache'[key])
         /\ loader'.loads = loader.loads + 1
    ELSE cache' = cache /\ loader'.loads = loader.loads

\* the keys of a preload call
PreloadedKeys(call) == {<<call[1], call[2][i]>> : i \in 1..Len(call[2])}

\* C24: every open() goes through the one cache keyed by (source, path):
\* a key not cached is loaded once and added, a failed load adds nothing, a
\* cached key is returned without loading and leaves the cache unchanged;
\* so an open() of a path that the preload just before it loaded does not
\* change the size of the cache.
SharedCache ==
    [][ /\ loader'.op = "open"
          => IF Val(loader'.key) \in DOMAIN cache
             THEN OpenHit(Val(loader'.key))
             ELSE OpenMiss(Val(loader'.key))
        /\ ( /\ loader.op = "preload"
             /\ loader.err = "ok"
             /\ loader'.op = "open"
             /\ Val(loader'.key) \in PreloadedKeys(Val(loader.key)) )
          => Cardinality(DOMAIN cache') = Cardinality(DOMAIN cache) ]_vars

\* an open() returned an image that an earlier call had loaded, after the
\* cache had taken another image since
CachedImageReturned ==
    /\ loader.op = "open"
    /\ loader.err = "ok"
    /\ Val(loader.result).load < loader.loads
    /\ Cardinality(DOMAIN cache) = 2

\* C25: after a GridBox.expand(w, h) that returns, with both axes supplied
\* at or above the minimum, a total column weight of 0 and a non-zero total
\* row weight, the height excess has still gone to the rows: the cell
\* heights of each column sum to h and every cell lies below the cells
\* above it.
AxisIndependent ==
    ( /\ Returned("expand", "GridBox")
      /\ ~IsNone(last.a1) /\ ~IsNone(last.a2)
      /\ Val(last.a1) >= boxes[last.node].minwidth
      /\ Val(last.a2) >= boxes[last.node].minheight
      /\ sumcolfactors(last.node) = 0
      /\ sumrowfactors(last.node) # 0 )
    => LET n == last.node
       IN /\ \A c \in 1..NumCols(n) : ColHeights(n, c, NumRows(n)) = Val(last.a2)
          /\ \A r \in 1..NumRows(n) : \A c \in 1..NumCols(n) :
                boxes[Cell(n, r, c)].parentoffset_y
                  = offset_y(boxes, n) + ColHeights(n, c, r - 1)

\* the boxes of the tree as their constructors leave them, built bottom-up
\* from new leaves
RECURSIVE BuildFrom(_, _)
BuildFrom(b, n) ==
    IF n > Len(shape) THEN b
    ELSE IF IsLeaf(n) THEN BuildFrom(b, n + 1)
    ELSE BuildFrom(construct(b, n).b, n + 1)

FreshBoxes ==
    BuildFrom([n \in Nodes |->
                 IF IsLeaf(n) THEN BoxInit(shape[n].minwidth, shape[n].minheight)
                 ELSE BoxInit(0, 0)], 1)

\* root.expand(width, height) as the first call on a newly built tree
FreshExpand(width, height) == expand(FreshBoxes, Top, width, height)

\* C26: after a root expand(w, h) that returns, with both axes supplied, the
\* size and offsets of every box are those that the same call yields on a
\* newly built tree, whatever expand calls returned before it.
HistoryIndependent ==
    ( /\ last.op = "expand" /\ last.err = "ok" /\ last.node = Top
      /\ built = Nodes
      /\ ~IsNone(last.a1) /\ ~IsNone(last.a2) )
    => /\ FreshExpand(last.a1, last.a2).err = "ok"
       /\ \A n \in Nodes :
             Geometry(boxes, n) = Geometry(FreshExpand(last.a1, last.a2).b, n)

\* the rectangle <<x1, y1, x2, y2>> has a non-zero area
HasArea(rect) == rect[1] < rect[3] /\ rect[2] < rect[4]

\* two rectangles share a point of their interiors
Overlap(r1, r2) ==
    /\ r1[1] < r2[3] /\ r2[1] < r1[3]
    /\ r1[2] < r2[4] /\ r2[2] < r1[4]

\* the cells of grid n do not all have the same minimum size
UnequalCells(n) ==
    \E k1, k2 \in KidSet(n) :
       boxes[k1].minwidth # boxes[k2].minwidth \/ boxes[k1].minheight # boxes[k2].minheight

\* the size passed for an axis was left out or is at least the minimum
AtLeast(size, min) == IsNone(size) \/ Val(size) >= min

\* C27: after the construction of a GridBox of at least 2x2 whose cells have
\* unequal minimum sizes, and after every expand of it (to no less than its
\* minimum) that returns, the boxcoords of two distinct cells of non-zero
\* area do not overlap.
CellsDisjoint ==
    ( /\ \/ Returned("construct", "GridBox")
         \/ /\ Returned("expand", "GridBox")
            /\ AtLeast(last.a1, boxes[last.node].minwidth)
            /\ AtLeast(last.a2, boxes[last.node].minheight)
      /\ NumRows(last.node) >= 2 /\ NumCols(last.node) >= 2
      /\ UnequalCells(last.node) )
    => \A k1, k2 \in KidSet(last.node) :
          ( /\ k1 # k2
            /\ HasArea(boxcoords(boxes, k1))
            /\ HasArea(boxcoords(boxes, k2)) )
          => ~Overlap(boxcoords(boxes, k1), boxcoords(boxes, k2))

\* rectangle r1 lies inside rectangle r2
Inside(r1, r2) ==
    /\ r1[1] >= r2[1] /\ r1[2] >= r2[2]
    /\ r1[3] <= r2[3] /\ r1[4] <= r2[4]

\* the composites that lay their sub-boxes out inside themselves
Containers ==
    {p \in built :
        \/ shape[p].kind \in {"GridBox", "BorderBox"}
        \/ shape[p].kind = "LayerBox" /\ shape[p].matchsizes}

\* C28: after the construction of the root and after every expand of the
\* root (to no less than its minimum) that returns, every sub-box of a
\* GridBox, a matching LayerBox or a BorderBox lies inside that composite,
\* where the sub-boxes have local offset 0.
Containment ==
    ( /\ last.op \in {"construct", "expand"} /\ last.err = "ok"
      /\ last.node = Top /\ Top \in built
      /\ AtLeast(last.a1, boxes[Top].minwidth)
      /\ AtLeast(last.a2, boxes[Top].minheight) )
    => \A p \in Containers :
          (\A k \in KidSet(p) : boxes[k].localoffset_x = 0 /\ boxes[k].localoffset_y = 0)
          => \A k \in KidSet(p) : Inside(boxcoords(boxes, k), boxcoords(boxes, p))

\* every bucket's expansion is within 1 of its exact share excess * weight / T
WithinOneOfShare ==
    (dist.done /\ SeqSum(dist.factors) # 0)
    => LET T == SeqSum(dist.factors)
       IN \A i \in 1..Len(dist.factors) :
             /\ T * dist.exp[i] > dist.excess * dist.factors[i] - T
             /\ T * dist.exp[i] < dist.excess * dist.factors[i] + T

\* a step that grows the excess by 1 decreases no cumulative expansion
CumulativeMonotone ==
    (dist.done /\ dist'.done /\ dist'.excess = dist.excess + 1)
    => \A i \in 1..Len(dist.factors) :
          SeqSum(SubSeq(dist'.exp, 1, i)) >= SeqSum(SubSeq(dist.exp, 1, i))

\* C29: for every excess >= 0 and non-negative weights of total T > 0 each
\* bucket's expansion differs from its exact share excess * weight / T by
\* less than 1, and growing the excess by 1 decreases no cumulative
\* expansion.
ProportionalFairness == []WithinOneOfShare /\ [][CumulativeMonotone]_vars

\* three equal weights: the excess 2 was split (0, 1, 1), then the excess 3
\* (1, 1, 1)
GrownToEvenSplit ==
    /\ dist.done
    /\ dist.grown = 1
    /\ dist.factors = <<1, 1, 1>>
    /\ dist.excess = 3
    /\ dist.exp = <<1, 1, 1>>

\* the number a text of digits reads as, most significant digit first
RECURSIVE DigitsValue(_)
DigitsValue(text) ==
    IF text = <<>> THEN 0
    ELSE 10 * DigitsValue(SubSeq(text, 1, Len(text) - 1))
           + (CHOOSE d \in 0..9 : DigitChars[d + 1] = text[Len(text)])

\* the number a padded text reads as
TextValue(text) ==
    LET body == SelectSeq(text, LAMBDA ch : ch # " ")
    IN IF body[1] = "-" THEN -DigitsValue(Tail(body)) ELSE DigitsValue(body)

\* C30: for a Counter of n >= 1 digits and any integer assigned to state the
\* stored value lies in [-(10^(n-1)) + 1, 10^n - 1], is the assigned value
\* when that lies in the range, and its text has exactly n characters and
\* reads as the stored value; each of the n digits got the state of its
\* character and no digit beyond the n-th was written.
CounterClamped ==
    counter.numdigits > 0
    => LET n == counter.numdigits
       IN /\ counter.state >= -Pow10(n - 1) + 1
          /\ counter.state <= Pow10(n) - 1
          /\ (counter.assigned >= -Pow10(n - 1) + 1 /\ counter.assigned <= Pow10(n) - 1)
               => counter.state = counter.assigned
          /\ Len(counter.text) = n
          /\ TextValue(counter.text) = counter.state
          /\ counter.err = "ok"
          /\ Len(counter.digits) = n
          /\ \A i \in 1..n :
                /\ counter.text[i] = " " <=> counter.digits[i] = "Off"
                /\ counter.text[i] = "-" <=> counter.digits[i] = "Minus"
                /\ \A d \in 0..9 :
                      counter.text[i] = DigitChars[d + 1]
                        <=> counter.digits[i] = DigitClasses[d + 1]

\* a value below the range of a two-digit counter was stored as -9 and
\* shown as Minus, 9
NegativeClamped ==
    /\ counter.numdigits = 2
    /\ counter.assigned <= -10
    /\ counter.state = -9
    /\ counter.digits = <<"Minus", "Digit_9">>
====
